---- MODULE Spec2Model ----
(***************************************************************************)
(* SpartanHub: the client-side resource catalog (App.tsx), the dashboard   *)
(* filter, the resource viewer's related-content navigation, and the admin *)
(* console's tag registry and resource form (AdminConsole.tsx).            *)
(*                                                                         *)
(* Strings are sequences of one-character strings, so that toLowerCase,    *)
(* trim, includes and the default sort are computed, not assumed.          *)
(* A nullable value (T | null) is a sequence of length 0 (null) or 1.      *)
(***************************************************************************)
EXTENDS Integers, Sequences, FiniteSets, TLC

VARIABLES
    resources,            \* App: useState<Resource[]>            (the catalog)
    searchTerm,           \* App: useState('')
    activeFilter,         \* App: useState<string>('All')         (type filter)
    selectedSubjects,     \* App: useState<string[]>([])
    selectedLevel,        \* App: useState<string>('All')
    selectedResource,     \* App: useState<Resource | null>(null) (viewer modal)
    recentResourceIds,    \* App: useState<string[]>([])
    selectedResourceIds,  \* App: useState<Set<string>>           (bookmarks)
    view,                 \* App: 'dashboard' | 'admin'
    editingTag,           \* Admin: { original, current } | null
    tagDeleteConfirm,     \* Admin: string | null
    notification,         \* Admin: { type, message } | null
    formData,             \* Admin: the resource form
    selectedFile,         \* Admin: File | null
    editingResourceId,    \* Admin: string | null
    backend,              \* the catalog held by the HTTP backend
    notifications,        \* App: useState<any[]>([])            (the bell's list)
    deleteConfirmId,      \* Admin: string | null
    session,              \* supabase.auth.getSession(): access token | null
    storage,              \* the files the object store was asked to write
    lastRequest,          \* the last write request issued to the backend
    submitCall,           \* a handleSubmit call suspended at an await, or null
    deleteCalls,          \* the handleDeleteResource calls suspended at an await
    loadCall,             \* App: the initial GET /api/resources, while in flight
    chat                  \* AIChatWidget: inputText, isLoading, messages, requests

appFilterVars == <<searchTerm, activeFilter, selectedSubjects, selectedLevel>>
viewerVars    == <<selectedResource, recentResourceIds>>
tagVars       == <<editingTag, tagDeleteConfirm>>
formVars      == <<formData, selectedFile, editingResourceId>>
sideVars      == <<loadCall, chat>>
netVars       == <<notifications, deleteConfirmId, session, storage, lastRequest,
                   submitCall, deleteCalls, sideVars>>

vars == <<resources, searchTerm, activeFilter, selectedSubjects, selectedLevel,
          selectedResource, recentResourceIds, selectedResourceIds, view,
          editingTag, tagDeleteConfirm, notification, formData, selectedFile,
          editingResourceId, backend, notifications, deleteConfirmId, session,
          storage, lastRequest, submitCall, deleteCalls, loadCall, chat>>

(***************************************************************************)
(* Bounds of the model.                                                    *)
(***************************************************************************)
MaxCatalog == 2      \* longest catalog drawn as an input
MaxViews == 2        \* cap on the view counter in the guards
MaxMessages == 3     \* cap on the chat transcript and the requests in the guards

(***************************************************************************)
(* Strings.                                                                *)
(***************************************************************************)
None == << >>
Some(x) == <<x>>
IsNull(o) == o = << >>
TheValue(o) == o[1]

\* UTF-16 code units of the characters the model uses (String sort order).
CodeUnit(c) ==
    CASE c = " " -> 32
      [] c = "+" -> 43
      [] c = "," -> 44
      [] c = "A" -> 65
      [] c = "B" -> 66
      [] c = "a" -> 97
      [] c = "b" -> 98
      [] c = "u" -> 117

UpperCaseLetters == <<"A", "B", "C", "D", "E", "F", "G", "H", "I", "J", "K", "L", "M", "N", "O", "P", "Q", "R", "S", "T", "U", "V", "W", "X", "Y", "Z">>

LowerCaseLetters == <<"a", "b", "c", "d", "e", "f", "g", "h", "i", "j", "k", "l", "m", "n", "o", "p", "q", "r", "s", "t", "u", "v", "w", "x", "y", "z">>

\* a code unit that is half of a surrogate pair, as one character
HighSurrogate == "D800"

LowerChar(c) ==
    IF \E k \in 1..Len(UpperCaseLetters) : c = UpperCaseLetters[k]
    THEN LowerCaseLetters[CHOOSE k \in 1..Len(UpperCaseLetters) : c = UpperCaseLetters[k]]
    ELSE c

\* String.prototype.toLowerCase
toLowerCaseIdentity(s) == s

toLowerCase(s) == [i \in 1..Len(s) |-> LowerChar(s[i])]

\* s.startsWith(t, i-1): t occurs in s at (1-based) position i
OccursAt(s, t, i) ==
    /\ i + Len(t) - 1 <= Len(s)
    /\ \A k \in 1..Len(t) : s[i + k - 1] = t[k]

\* String.prototype.includes: scan the positions from the left
RECURSIVE IncludesFrom(_, _, _)
IncludesFrom(s, t, i) ==
    IF i + Len(t) - 1 > Len(s) THEN FALSE
    ELSE IF OccursAt(s, t, i) THEN TRUE
    ELSE IncludesFrom(s, t, i + 1)

includes(s, t) == IncludesFrom(s, t, 1)

IsWhiteSpace(c) == c = " "

\* String.prototype.trim
RECURSIVE TrimStart(_)
TrimStart(s) ==
    IF s # << >> /\ IsWhiteSpace(Head(s)) THEN TrimStart(Tail(s)) ELSE s

RECURSIVE TrimEnd(_)
TrimEnd(s) ==
    IF s # << >> /\ IsWhiteSpace(s[Len(s)])
    THEN TrimEnd(SubSeq(s, 1, Len(s) - 1))
    ELSE s

trim(s) == TrimEnd(TrimStart(s))

\* Array.prototype.includes / Array.prototype.some on a sequence
Contains(seq, x) == \E i \in 1..Len(seq) : seq[i] = x

\* Array.from(new Set(seq)): first occurrences, in insertion order
RECURSIVE Dedup(_)
Dedup(seq) ==
    IF seq = << >> THEN << >>
    ELSE LET init == Dedup(SubSeq(seq, 1, Len(seq) - 1))
             last == seq[Len(seq)]
         IN IF Contains(init, last) THEN init ELSE Append(init, last)

\* Sequences of length 0..n over S
SeqUpTo(S, n) == UNION { [1..k -> S] : k \in 0..n }

(***************************************************************************)
(* Resources.                                                              *)
(***************************************************************************)
ResourceType ==
    {"PDF", "VIDEO", "LINK", "DOC", "IMAGE", "PRESENTATION", "SPREADSHEET", "CODE"}

\* A Resource record; the fields an input set does not vary get these values.
Res(id, title, description, tags, type, subject, level, status, related, views) ==
    [ id |-> id, title |-> title, description |-> description, tags |-> tags,
      type |-> type, department |-> "General", subject |-> subject,
      level |-> level, status |-> status,
      url |-> <<"u">>, external_url |-> << >>, original_filename |-> None,
      relatedResourceIds |-> related, views |-> views, downloads |-> 0 ]

Subjects == {"CS", "MATH"}
Levels == {"Undergraduate", "Graduate", "Faculty/Admin"}

(***************************************************************************)
(* Dashboard: derived views (App.tsx render).                              *)
(***************************************************************************)
matchesSearch(res, term) ==
    \/ includes(toLowerCase(res.title), toLowerCase(term))
    \/ includes(toLowerCase(res.description), toLowerCase(term))
    \/ \E i \in 1..Len(res.tags) :
          includes(toLowerCase(res.tags[i]), toLowerCase(term))

matchesType(res, filter) == filter = "All" \/ res.type = filter

matchesSubject(res, subjects) == Len(subjects) = 0 \/ Contains(subjects, res.subject)

matchesLevel(res, level) == level = "All" \/ res.level = level

passesFilter(res) ==
    /\ res.status = "online"
    /\ matchesSearch(res, searchTerm)
    /\ matchesType(res, activeFilter)
    /\ matchesSubject(res, selectedSubjects)
    /\ matchesLevel(res, selectedLevel)

\* Array.prototype.filter keeps the matching elements in catalog order
filteredResources == SelectSeq(resources, passesFilter)

\* a sort that puts a resource before the ones with the same views
RECURSIVE InsertByViewsUnstable(_, _)
InsertByViewsUnstable(sorted, r) ==
    IF sorted = << >> THEN <<r>>
    ELSE IF Head(sorted).views > r.views
         THEN <<Head(sorted)>> \o InsertByViewsUnstable(Tail(sorted), r)
         ELSE <<r>> \o sorted

\* Array.prototype.sort((a, b) => b.views - a.views): stable, descending
RECURSIVE InsertByViews(_, _)
InsertByViews(sorted, r) ==
    IF sorted = << >> THEN <<r>>
    ELSE IF Head(sorted).views >= r.views
         THEN <<Head(sorted)>> \o InsertByViews(Tail(sorted), r)
         ELSE <<r>> \o sorted

RECURSIVE SortByViewsDesc(_)
SortByViewsDesc(seq) ==
    IF seq = << >> THEN << >>
    ELSE InsertByViews(SortByViewsDesc(SubSeq(seq, 1, Len(seq) - 1)), seq[Len(seq)])

PopularLimit == 4

isPopularCandidate(r) == r.status = "online" /\ r.views > 0

popularResources ==
    LET ranked == SortByViewsDesc(SelectSeq(resources, isPopularCandidate))
    IN SubSeq(ranked, 1, IF Len(ranked) < PopularLimit THEN Len(ranked) ELSE PopularLimit)

isDefaultView ==
    /\ searchTerm = << >>
    /\ activeFilter = "All"
    /\ Len(selectedSubjects) = 0
    /\ selectedLevel = "All"

\* {isDefaultView && popularResources.length > 0 && (...)}
popularSectionShown == isDefaultView /\ Len(popularResources) > 0

(***************************************************************************)
(* Dashboard: filter controls.                                             *)
(***************************************************************************)
SearchTerms == { << >>, <<"a", "+">>, <<"A">>, <<"b">>, <<"a", "b">> }

SetSearchTerm(term) ==
    /\ view = "dashboard"
    /\ searchTerm' = term
    /\ UNCHANGED <<resources, activeFilter, selectedSubjects, selectedLevel,
                   viewerVars, selectedResourceIds, view, tagVars, notification,
                   formVars, backend, netVars>>

\* a tag chip of a displayed card (the first three tags of the resource)
handleTagClick(tag) ==
    /\ view = "dashboard"
    /\ \E i \in 1..Len(resources) :
          /\ \/ Contains(filteredResources, resources[i])
             \/ isDefaultView /\ Contains(popularResources, resources[i])
          /\ \E k \in 1..Len(resources[i].tags) : k <= 3 /\ resources[i].tags[k] = tag
    /\ searchTerm' = tag
    /\ UNCHANGED <<resources, activeFilter, selectedSubjects, selectedLevel,
                   viewerVars, selectedResourceIds, view, tagVars, notification,
                   formVars, backend, netVars>>

SetActiveFilter(filter) ==
    /\ view = "dashboard"
    /\ activeFilter' = filter
    /\ UNCHANGED <<resources, searchTerm, selectedSubjects, selectedLevel,
                   viewerVars, selectedResourceIds, view, tagVars, notification,
                   formVars, backend, netVars>>

toggleSubjectFilter(subject) ==
    /\ view = "dashboard"
    /\ selectedSubjects' =
          IF Contains(selectedSubjects, subject)
          THEN SelectSeq(selectedSubjects, LAMBDA s : s # subject)
          ELSE Append(selectedSubjects, subject)
    /\ UNCHANGED <<resources, searchTerm, activeFilter, selectedLevel,
                   viewerVars, selectedResourceIds, view, tagVars, notification,
                   formVars, backend, netVars>>

clearSubjectFilter ==
    /\ view = "dashboard"
    /\ selectedSubjects' = << >>
    /\ UNCHANGED <<resources, searchTerm, activeFilter, selectedLevel,
                   viewerVars, selectedResourceIds, view, tagVars, notification,
                   formVars, backend, netVars>>

\* the subject dropdown: 'All' clears, a subject replaces the selection
SelectSubject(val) ==
    /\ view = "dashboard"
    /\ selectedSubjects' = <<val>>
    /\ UNCHANGED <<resources, searchTerm, activeFilter, selectedLevel,
                   viewerVars, selectedResourceIds, view, tagVars, notification,
                   formVars, backend, netVars>>

\* the level dropdown
SetSelectedLevel(level) ==
    /\ view = "dashboard"
    /\ selectedLevel' = level
    /\ UNCHANGED <<resources, searchTerm, activeFilter, selectedSubjects,
                   viewerVars, selectedResourceIds, view, tagVars, notification,
                   formVars, backend, netVars>>

\* the sidebar level buttons: clicking the selected level clears it
ToggleLevel(level) ==
    /\ view = "dashboard"
    /\ selectedLevel' = IF level = selectedLevel THEN "All" ELSE level
    /\ UNCHANGED <<resources, searchTerm, activeFilter, selectedSubjects,
                   viewerVars, selectedResourceIds, view, tagVars, notification,
                   formVars, backend, netVars>>

ClearAllFilters ==
    /\ view = "dashboard"
    /\ Len(filteredResources) = 0
    /\ ~isDefaultView
    /\ Len(resources) > 0
    /\ searchTerm' = << >>
    /\ activeFilter' = "All"
    /\ selectedSubjects' = << >>
    /\ selectedLevel' = "All"
    /\ UNCHANGED <<resources, viewerVars, selectedResourceIds, view, tagVars,
                   notification, formVars, backend, netVars>>

(***************************************************************************)
(* Admin console: initial component state.                                 *)
(***************************************************************************)
InitialFormData ==
    [ title |-> << >>, description |-> << >>, type |-> "PDF",
      department |-> "General", subject |-> "GEN", level |-> "Undergraduate",
      tags |-> << >>, status |-> "online", url |-> << >>, external_url |-> << >>,
      relatedIds |-> << >> ]

AdminInit ==
    /\ deleteConfirmId = None
    /\ submitCall = None
    /\ deleteCalls = {}
    /\ editingTag = None
    /\ tagDeleteConfirm = None
    /\ notification = None
    /\ formData = InitialFormData
    /\ selectedFile = None
    /\ editingResourceId = None

\* a signed-in admin, nothing sent yet
BackendInit ==
    /\ session = Some("token")
    /\ storage = {}
    /\ lastRequest = None

\* AIChatWidget's initial state: the welcome message, nothing typed or sent
ChatInit ==
    [ inputText |-> << >>, isLoading |-> FALSE, messages |-> <<"model">>,
      requests |-> 0,     \* chat requests in flight whose handleSend call is of this widget
      orphans |-> 0 ]     \* chat requests in flight sent by a widget since unmounted

DashboardInit ==
    /\ loadCall = None
    /\ chat = ChatInit
    /\ notifications = << >>
    /\ searchTerm = << >>
    /\ activeFilter = "All"
    /\ selectedSubjects = << >>
    /\ selectedLevel = "All"
    /\ selectedResource = None
    /\ recentResourceIds = << >>

(***************************************************************************)
(* SpecFilter: the dashboard filter over catalogs drawn from FilterPool.   *)
(***************************************************************************)
FilterPool ==
    { Res("r1", <<"A", "+">>, <<"b">>, << <<"a", "b">> >>, "PDF", "CS", "Undergraduate", "online", << >>, 0),
      Res("r2", <<"a", "a">>, << >>, << >>, "DOC", "MATH", "Graduate", "online", << >>, 0),
      Res("r3", <<"b">>, <<"a", "+">>, << <<"B">> >>, "PDF", "CS", "Graduate", "offline", << >>, 0),
      Res("r4", <<"b">>, <<"b">>, << <<"b">>, <<"A", "+">> >>, "PDF", "MATH", "Undergraduate", "online", << >>, 0) }

InitFilter ==
    /\ resources \in SeqUpTo(FilterPool, MaxCatalog)
    /\ backend = resources
    /\ selectedResourceIds = {}
    /\ view = "dashboard"
    /\ DashboardInit
    /\ AdminInit
    /\ BackendInit

NextFilter ==
    \/ \E term \in SearchTerms : SetSearchTerm(term)
    \/ \E i \in 1..Len(resources) : \E k \in 1..Len(resources[i].tags) :
          handleTagClick(resources[i].tags[k])
    \/ \E filter \in {"All"} \cup ResourceType : SetActiveFilter(filter)
    \/ \E subject \in Subjects : toggleSubjectFilter(subject)
    \/ clearSubjectFilter
    \/ \E subject \in Subjects : SelectSubject(subject)
    \/ \E level \in {"All"} \cup Levels : SetSelectedLevel(level)
    \/ \E level \in Levels : ToggleLevel(level)
    \/ ClearAllFilters

SpecFilter == InitFilter /\ [][NextFilter]_vars

(***************************************************************************)
(* Dashboard: opening a resource (viewer modal, Recently Viewed, related   *)
(* content).                                                               *)
(***************************************************************************)
RecentLimit == 5

Take(seq, n) == SubSeq(seq, 1, IF Len(seq) < n THEN Len(seq) ELSE n)

\* Array.prototype.find: the first element with the id, or null
FindById(seq, id) ==
    LET hits == SelectSeq(seq, LAMBDA r : r.id = id)
    IN IF hits = << >> THEN None ELSE Some(Head(hits))

\* handleIncrementView: setResources(prev => prev.map(...))
IncrementView(seq, id) ==
    [i \in 1..Len(seq) |->
        IF seq[i].id = id THEN [seq[i] EXCEPT !.views = @ + 1] ELSE seq[i]]

\* the Recently Viewed buttons: ids still found in the catalog
recentResources ==
    LET found == [i \in 1..Len(recentResourceIds) |-> FindById(resources, recentResourceIds[i])]
        shown == SelectSeq(found, LAMBDA o : o # None)
    IN [i \in 1..Len(shown) |-> TheValue(shown[i])]

\* ResourceViewerModal: allResources.filter(r => resource.relatedResourceIds?.includes(r.id))
relatedResourcesOf(resource) ==
    SelectSeq(resources, LAMBDA r : Contains(resource.relatedResourceIds, r.id))

relatedResources ==
    IF selectedResource = None THEN << >>
    ELSE relatedResourcesOf(TheValue(selectedResource))

\* POST /api/resources/{id}/view, sent without awaiting or checking the result
BackendViewOutcomes(id) == { backend, IncrementView(backend, id) }

handleResourceClick(resource) ==
    /\ view = "dashboard"
    /\ \A i \in 1..Len(resources) :
          resources[i].id = resource.id => resources[i].views < MaxViews
    /\ selectedResource' = Some(resource)
    /\ resources' = IncrementView(resources, resource.id)
    /\ backend' \in BackendViewOutcomes(resource.id)
    /\ recentResourceIds' =
          Take(<<resource.id>> \o SelectSeq(recentResourceIds, LAMBDA id : id # resource.id),
               RecentLimit)
    /\ UNCHANGED <<appFilterVars, selectedResourceIds, view, tagVars, notification, formVars, netVars>>

\* a card of the filtered grid
ClickGridCard ==
    \E i \in 1..Len(filteredResources) : handleResourceClick(filteredResources[i])

\* a card of the Most Popular section
ClickPopularCard ==
    /\ isDefaultView
    /\ \E i \in 1..Len(popularResources) : handleResourceClick(popularResources[i])

\* a Recently Viewed button of the sidebar
ClickRecent ==
    \E i \in 1..Len(recentResources) : handleResourceClick(recentResources[i])

\* a Related Content button of the viewer modal (onNavigateResource)
ClickRelated ==
    \E i \in 1..Len(relatedResources) : handleResourceClick(relatedResources[i])

\* the viewer's onClose
CloseViewer ==
    /\ view = "dashboard"
    /\ selectedResource # None
    /\ selectedResource' = None
    /\ UNCHANGED <<resources, appFilterVars, recentResourceIds, selectedResourceIds,
                   view, tagVars, notification, formVars, backend, netVars>>

(***************************************************************************)
(* SpecViewer: the dashboard with the viewer, over catalogs drawn from     *)
(* ViewerPool (related ids as authored in the admin form, any status).     *)
(***************************************************************************)
ViewerPool ==
    { Res("r1", <<"a">>, << >>, << <<"a">> >>, "PDF", "CS", "Undergraduate", "online", <<"r2">>, 0),
      Res("r2", <<"b">>, << >>, << <<"b">> >>, "PDF", "CS", "Undergraduate", "offline", << >>, 0),
      Res("r2", <<"b">>, << >>, << <<"b">> >>, "PDF", "CS", "Undergraduate", "online", << >>, 1),
      Res("r3", <<"a", "b">>, << >>, << >>, "DOC", "MATH", "Graduate", "online", <<"r1">>, 0),
      Res("r3", <<"a", "b">>, << >>, << >>, "DOC", "MATH", "Graduate", "offline", <<"r1">>, 1) }

InitViewer ==
    /\ resources \in SeqUpTo(ViewerPool, MaxCatalog)
    /\ backend = resources
    /\ selectedResourceIds = {}
    /\ view = "dashboard"
    /\ DashboardInit
    /\ AdminInit
    /\ BackendInit

NextViewer ==
    \/ ClickGridCard
    \/ ClickPopularCard
    \/ ClickRecent
    \/ ClickRelated
    \/ CloseViewer
    \/ \E term \in {<< >>, <<"b">>} : SetSearchTerm(term)
    \/ \E filter \in {"All", "DOC"} : SetActiveFilter(filter)

SpecViewer == InitViewer /\ [][NextViewer]_vars

(***************************************************************************)
(* Admin console: the resource form (AdminConsole.tsx).  The tab buttons   *)
(* only choose which panel is rendered and are always enabled, so each     *)
(* control below is available whenever its own rendering condition holds.  *)
(***************************************************************************)
requiresUrlOnly(t) == t = "LINK"

allowsUploadOrLink(t) == t = "VIDEO" \/ t = "DOC" \/ t = "PRESENTATION"

canUploadFile(t) == t = "PDF" \/ allowsUploadOrLink(t)

showsPrimaryUrlField(t) == t = "LINK" \/ allowsUploadOrLink(t)

\* !!formData.url?.trim()
hasUrlUntrimmed == formData.url # << >>

hasUrl == trim(formData.url) # << >>

\* the submit button's disabled attribute
submitDisabled ==
    IF formData.type = "LINK" THEN ~hasUrl
    ELSE IF allowsUploadOrLink(formData.type)
         THEN selectedFile = None /\ ~hasUrl /\ editingResourceId = None
         ELSE selectedFile = None /\ editingResourceId = None

\* Array.prototype.join(', ')
RECURSIVE Join(_)
Join(tags) ==
    IF tags = << >> THEN << >>
    ELSE IF Len(tags) = 1 THEN tags[1]
    ELSE tags[1] \o <<",", " ">> \o Join(Tail(tags))

\* what a conforming <input type="url"> reports as its value: the typed text
\* with leading and trailing whitespace stripped
TypedUrls == { << >>, <<"u">> }

Files == { [name |-> "f1"], [name |-> "f2"] }

\* handleInputChange on the primary URL input
ChangeUrl(value) ==
    /\ view = "admin"
    /\ showsPrimaryUrlField(formData.type)
    /\ formData' = [formData EXCEPT !.url = value]
    /\ UNCHANGED <<resources, appFilterVars, viewerVars, selectedResourceIds, view,
                   tagVars, notification, selectedFile, editingResourceId, backend, netVars>>

\* handleInputChange on the optional external link input
ChangeExternalUrl(value) ==
    /\ view = "admin"
    /\ formData.type # "LINK"
    /\ formData' = [formData EXCEPT !.external_url = value]
    /\ UNCHANGED <<resources, appFilterVars, viewerVars, selectedResourceIds, view,
                   tagVars, notification, selectedFile, editingResourceId, backend, netVars>>

\* the type buttons
ClickType(type) ==
    /\ view = "admin"
    /\ formData' = [formData EXCEPT
          !.type = type,
          !.url = IF type = "LINK" THEN formData.url ELSE << >>,
          !.external_url = IF type = "LINK" THEN << >> ELSE formData.external_url]
    /\ selectedFile' = None
    /\ UNCHANGED <<resources, appFilterVars, viewerVars, selectedResourceIds, view,
                   tagVars, notification, editingResourceId, backend, netVars>>

\* the hidden file input exists only while canUploadFile(formData.type)
fileInputRendered == canUploadFile(formData.type)

handleFileChange(file) ==
    /\ view = "admin"
    /\ fileInputRendered
    /\ selectedFile' = Some(file)
    /\ UNCHANGED <<resources, appFilterVars, viewerVars, selectedResourceIds, view,
                   tagVars, notification, formData, editingResourceId, backend, netVars>>

toggleStatus ==
    /\ view = "admin"
    /\ formData' = [formData EXCEPT
          !.status = IF formData.status = "online" THEN "offline" ELSE "online"]
    /\ UNCHANGED <<resources, appFilterVars, viewerVars, selectedResourceIds, view,
                   tagVars, notification, selectedFile, editingResourceId, backend, netVars>>

\* the Edit button of a row of the resources table
handleEditClick(resource) ==
    /\ view = "admin"
    /\ Contains(resources, resource)
    /\ editingResourceId' = Some(resource.id)
    /\ formData' =
          [ title |-> resource.title, description |-> resource.description,
            type |-> resource.type, department |-> resource.department,
            subject |-> resource.subject, level |-> resource.level,
            tags |-> Join(resource.tags), status |-> resource.status,
            url |-> resource.url, external_url |-> resource.external_url,
            relatedIds |-> resource.relatedResourceIds ]
    /\ UNCHANGED <<resources, appFilterVars, viewerVars, selectedResourceIds, view,
                   tagVars, notification, selectedFile, backend, netVars>>

ClearedFormAll(prev) == InitialFormData

\* resetForm's setFormData(prev => ...): department, subject and level stay
ClearedForm(prev) ==
    [prev EXCEPT
          !.title = << >>, !.description = << >>, !.type = "PDF", !.tags = << >>,
          !.status = "online", !.url = << >>, !.external_url = << >>,
          !.relatedIds = << >>]

\* Reset / Cancel Edit
resetForm ==
    /\ view = "admin"
    /\ editingResourceId' = None
    /\ formData' = ClearedForm(formData)
    /\ selectedFile' = None
    /\ UNCHANGED <<resources, appFilterVars, viewerVars, selectedResourceIds, view,
                   tagVars, notification, backend, netVars>>

(***************************************************************************)
(* SpecForm: the form controls, over catalogs drawn from FormPool.         *)
(***************************************************************************)
ResU(id, type, url) ==
    [ Res(id, <<"a">>, << >>, << <<"a">> >>, type, "CS", "Undergraduate", "online", << >>, 0)
        EXCEPT !.url = url ]

FormPool ==
    { ResU("r1", "PDF", <<"u">>),
      ResU("r2", "LINK", <<" ">>),
      ResU("r3", "IMAGE", <<"u">>),
      ResU("r4", "VIDEO", << >>) }

InitForm ==
    /\ resources \in SeqUpTo(FormPool, MaxCatalog)
    /\ backend = resources
    /\ selectedResourceIds = {}
    /\ view = "admin"
    /\ DashboardInit
    /\ AdminInit
    /\ BackendInit

NextForm ==
    \/ \E value \in TypedUrls : ChangeUrl(value)
    \/ \E value \in TypedUrls : ChangeExternalUrl(value)
    \/ \E type \in ResourceType : ClickType(type)
    \/ \E file \in Files : handleFileChange(file)
    \/ toggleStatus
    \/ \E i \in 1..Len(resources) : handleEditClick(resources[i])
    \/ resetForm

SpecForm == InitForm /\ [][NextForm]_vars

(***************************************************************************)
(* Admin console: the tag registry (AdminConsole.tsx).                     *)
(***************************************************************************)
Range(seq) == { seq[i] : i \in 1..Len(seq) }

\* resources.reduce((acc, r) => acc.concat(r.tags), [])
RECURSIVE RawTagsOf(_)
RawTagsOf(seq) ==
    IF seq = << >> THEN << >> ELSE Head(seq).tags \o RawTagsOf(Tail(seq))

rawTags == RawTagsOf(resources)

\* the default comparison of Array.prototype.sort: UTF-16 code units, a
\* proper prefix first
RECURSIVE StrLess(_, _)
StrLess(s, t) ==
    IF t = << >> THEN FALSE
    ELSE IF s = << >> THEN TRUE
    ELSE IF CodeUnit(Head(s)) # CodeUnit(Head(t))
         THEN CodeUnit(Head(s)) < CodeUnit(Head(t))
         ELSE StrLess(Tail(s), Tail(t))

RECURSIVE InsertStr(_, _)
InsertStr(sorted, x) ==
    IF sorted = << >> THEN <<x>>
    ELSE IF StrLess(x, Head(sorted)) THEN <<x>> \o sorted
    ELSE <<Head(sorted)>> \o InsertStr(Tail(sorted), x)

RECURSIVE SortStrings(_)
SortStrings(seq) ==
    IF seq = << >> THEN << >>
    ELSE InsertStr(SortStrings(Tail(seq)), Head(seq))

\* Array.from(new Set(rawTags)).sort()
uniqueTags == SortStrings(Dedup(rawTags))

\* rawTags.reduce((acc, tag) => { acc[tag] = (acc[tag] || 0) + 1 }, {})
tagCounts ==
    [ tag \in Range(rawTags) |->
        Cardinality({ i \in 1..Len(rawTags) : rawTags[i] = tag }) ]

\* App.handleBatchUpdateResources: the updates keyed by id, a later update
\* replacing an earlier one with the same id
UpdateFor(updates, id) ==
    LET hits == SelectSeq(updates, LAMBDA u : u.id = id)
    IN IF hits = << >> THEN None ELSE Some(hits[Len(hits)])

handleBatchUpdateResources(prev, updates) ==
    [ i \in 1..Len(prev) |->
        IF UpdateFor(updates, prev[i].id) = None THEN prev[i]
        ELSE TheValue(UpdateFor(updates, prev[i].id)) ]

\* setNotification({ type, message }): the message's template and its
\* interpolated values
Notice(type, text, tag, to, count) ==
    Some([ type |-> type, text |-> text, tag |-> tag, to |-> to, count |-> count ])

ReplaceTag(tags, old, new) ==
    [ i \in 1..Len(tags) |-> IF tags[i] = old THEN new ELSE tags[i] ]

RenameUpdates(old, new) ==
    LET hit == SelectSeq(resources, LAMBDA r : Contains(r.tags, old))
    IN [ i \in 1..Len(hit) |->
           [hit[i] EXCEPT !.tags = Dedup(ReplaceTag(hit[i].tags, old, new))] ]

renameIsNoOp ==
    \/ editingTag = None
    \/ trim(TheValue(editingTag).current) = << >>
    \/ TheValue(editingTag).current = TheValue(editingTag).original

handleRenameTag ==
    IF renameIsNoOp
    THEN /\ editingTag' = None
         /\ UNCHANGED <<resources, notification>>
    ELSE LET newTagName == trim(TheValue(editingTag).current)
             oldTagName == TheValue(editingTag).original
             updates == RenameUpdates(oldTagName, newTagName)
         IN /\ resources' = IF Len(updates) > 0
                            THEN handleBatchUpdateResources(resources, updates)
                            ELSE resources
            /\ notification' =
                  Notice("success", "Updated tag", oldTagName, newTagName, Len(updates))
            /\ editingTag' = None

DeleteUpdates(tagToDelete) ==
    LET hit == SelectSeq(resources, LAMBDA r : Contains(r.tags, tagToDelete))
    IN [ i \in 1..Len(hit) |->
           [hit[i] EXCEPT !.tags = SelectSeq(hit[i].tags, LAMBDA t : t # tagToDelete)] ]

handleDeleteTag(tagToDelete) ==
    LET updates == DeleteUpdates(tagToDelete)
    IN /\ resources' = IF Len(updates) > 0
                       THEN handleBatchUpdateResources(resources, updates)
                       ELSE resources
       /\ notification' = Notice("success", "Deleted tag", tagToDelete, << >>, Len(updates))
       /\ tagDeleteConfirm' = None

\* a row of the tag table shows the rename editor / the delete confirmation
renameEditorShown(tag) ==
    editingTag # None /\ TheValue(editingTag).original = tag

deleteConfirmAlwaysShown(tag) == TRUE

deleteConfirmShown(tag) == tagDeleteConfirm = Some(tag)

\* the Rename Tag button of a row
RequestRenameTag(tag) ==
    /\ view = "admin"
    /\ Contains(uniqueTags, tag)
    /\ ~deleteConfirmShown(tag)
    /\ editingTag = None
    /\ editingTag' = Some([original |-> tag, current |-> tag])
    /\ UNCHANGED <<resources, appFilterVars, viewerVars, selectedResourceIds, view,
                   tagDeleteConfirm, notification, formVars, backend, netVars>>

\* typing in the rename editor
ChangeRenameInput(value) ==
    /\ view = "admin"
    /\ \E tag \in Range(uniqueTags) : renameEditorShown(tag)
    /\ editingTag' = Some([TheValue(editingTag) EXCEPT !.current = value])
    /\ UNCHANGED <<resources, appFilterVars, viewerVars, selectedResourceIds, view,
                   tagDeleteConfirm, notification, formVars, backend, netVars>>

\* Enter, or the check button of the rename editor
ConfirmRenameTag ==
    /\ view = "admin"
    /\ \E tag \in Range(uniqueTags) : renameEditorShown(tag)
    /\ handleRenameTag
    /\ UNCHANGED <<appFilterVars, viewerVars, selectedResourceIds, view,
                   tagDeleteConfirm, formVars, backend, netVars>>

\* Escape, or the X button of the rename editor
CancelRenameTag ==
    /\ view = "admin"
    /\ \E tag \in Range(uniqueTags) : renameEditorShown(tag)
    /\ editingTag' = None
    /\ UNCHANGED <<resources, appFilterVars, viewerVars, selectedResourceIds, view,
                   tagDeleteConfirm, notification, formVars, backend, netVars>>

\* the Delete Tag button of a row
RequestDeleteTag(tag) ==
    /\ view = "admin"
    /\ Contains(uniqueTags, tag)
    /\ ~deleteConfirmShown(tag)
    /\ editingTag = None
    /\ tagDeleteConfirm' = Some(tag)
    /\ UNCHANGED <<resources, appFilterVars, viewerVars, selectedResourceIds, view,
                   editingTag, notification, formVars, backend, netVars>>

\* the Confirm button of a row
ConfirmDeleteTag(tag) ==
    /\ view = "admin"
    /\ Contains(uniqueTags, tag)
    /\ deleteConfirmShown(tag)
    /\ handleDeleteTag(tag)
    /\ UNCHANGED <<appFilterVars, viewerVars, selectedResourceIds, view,
                   editingTag, formVars, backend, netVars>>

\* the Cancel button of a row
CancelDeleteTag(tag) ==
    /\ view = "admin"
    /\ Contains(uniqueTags, tag)
    /\ deleteConfirmShown(tag)
    /\ tagDeleteConfirm' = None
    /\ UNCHANGED <<resources, appFilterVars, viewerVars, selectedResourceIds, view,
                   editingTag, notification, formVars, backend, netVars>>

\* the effect that clears the notification after 4 seconds
ClearNotification ==
    /\ notification # None
    /\ notification' = None
    /\ UNCHANGED <<resources, appFilterVars, viewerVars, selectedResourceIds, view,
                   tagVars, formVars, backend, netVars>>

(***************************************************************************)
(* Admin console: import (AdminConsole.handleImportData and                *)
(* App.handleOverwriteDatabase).  A file is what JSON.parse makes of it.   *)
(***************************************************************************)
looksLikeResourcesIdOnly(json) == \A i \in 1..Len(json) : json[i].id # ""

\* json.every(item => item.id && item.title && item.type)
looksLikeResources(json) ==
    \A i \in 1..Len(json) :
        json[i].id # "" /\ json[i].title # << >> /\ json[i].type # ""

handleOverwriteDatabase(newResources) ==
    /\ resources' = newResources
    /\ selectedResourceIds' =
          { id \in selectedResourceIds : \E i \in 1..Len(newResources) : newResources[i].id = id }

\* file.kind: "garbage" (JSON.parse throws), "object" (not an array), "array"
handleImportData(file) ==
    /\ view = "admin"
    /\ IF file.kind = "garbage"
       THEN /\ notification' = Notice("error", "Could not parse file", << >>, << >>, 0)
            /\ UNCHANGED <<resources, selectedResourceIds>>
       ELSE IF file.kind # "array"
       THEN /\ notification' = Notice("error", "Expected an array", << >>, << >>, 0)
            /\ UNCHANGED <<resources, selectedResourceIds>>
       ELSE IF looksLikeResources(file.json)
       THEN /\ handleOverwriteDatabase(file.json)
            /\ notification' =
                  Notice("success", "Successfully imported", << >>, << >>, Len(file.json))
       ELSE /\ notification' = Notice("error", "JSON structure mismatch", << >>, << >>, 0)
            /\ UNCHANGED <<resources, selectedResourceIds>>
    /\ UNCHANGED <<appFilterVars, viewerVars, view, tagVars, formVars, backend, netVars>>

(***************************************************************************)
(* SpecTags: the tag registry, over catalogs imported from TagPool.        *)
(***************************************************************************)
ResT(id, tags) ==
    Res(id, <<"a">>, << >>, tags, "PDF", "CS", "Undergraduate", "online", << >>, 0)

TagPool ==
    { ResT("r1", << <<"a">>, <<"b">> >>),
      ResT("r2", << <<"a">> >>),
      ResT("r1", << <<"B">> >>),
      ResT("r3", << <<"a">>, <<"a">> >>) }

\* an item without a title: fails the import validation
Untitled == [ ResT("r9", << >>) EXCEPT !.title = << >> ]

\* two well-formed files (one repeats an id, one repeats a tag within a
\* resource) and one file for each way the validation rejects
ImportFiles ==
    { [kind |-> "array", json |-> <<ResT("r1", << <<"a">>, <<"b">> >>), ResT("r1", << <<"B">> >>)>>],
      [kind |-> "array", json |-> <<ResT("r3", << <<"a">>, <<"a">> >>)>>],
      [kind |-> "array", json |-> <<Untitled>>],
      [kind |-> "object", json |-> << >>],
      [kind |-> "garbage", json |-> << >>] }

RenameInputs == { << >>, <<" ">>, <<"b">>, <<" ", "a">> }

\* the backend assigns the ids, so a catalog loaded from it repeats none
HasUniqueIds(seq) == \A i, j \in 1..Len(seq) : seq[i].id = seq[j].id => i = j

InitTags ==
    /\ resources \in { c \in SeqUpTo(TagPool, MaxCatalog) : HasUniqueIds(c) }
    /\ backend = resources
    /\ selectedResourceIds = {}
    /\ view = "admin"
    /\ DashboardInit
    /\ AdminInit
    /\ BackendInit

NextTags ==
    \/ \E tag \in Range(uniqueTags) : RequestRenameTag(tag)
    \/ \E value \in RenameInputs : ChangeRenameInput(value)
    \/ ConfirmRenameTag
    \/ CancelRenameTag
    \/ \E tag \in Range(uniqueTags) : RequestDeleteTag(tag)
    \/ \E tag \in Range(uniqueTags) : ConfirmDeleteTag(tag)
    \/ \E tag \in Range(uniqueTags) : CancelDeleteTag(tag)
    \/ ClearNotification
    \/ \E file \in ImportFiles : handleImportData(file)

SpecTags == InitTags /\ [][NextTags]_vars

(***************************************************************************)
(* App: switching between the dashboard and the admin console, and the     *)
(* bookmark set.  AdminConsole is rendered only while view = "admin": its  *)
(* state is created on mount and lost on unmount, and a handler of an      *)
(* unmounted console that resumes after an await sets state on nothing.    *)
(***************************************************************************)
\* a suspended call survives the unmount, detached from the console
Detach(call) ==
    IF call = None THEN None ELSE Some([TheValue(call) EXCEPT !.mounted = FALSE])

\* SettingsModal's onOpenAdmin; App then renders only the AdminConsole, so
\* the chat widget is unmounted and starts afresh when the dashboard returns
OpenAdmin ==
    /\ view = "dashboard"
    /\ view' = "admin"
    /\ chat' = [ChatInit EXCEPT !.orphans = chat.orphans + chat.requests]
    /\ UNCHANGED <<resources, appFilterVars, viewerVars, selectedResourceIds, tagVars,
                   notification, formVars, backend, notifications, deleteConfirmId, session,
                   storage, lastRequest, submitCall, deleteCalls, loadCall>>

\* AdminConsole's onBack
onBack ==
    /\ view = "admin"
    /\ view' = "dashboard"
    /\ editingTag' = None
    /\ tagDeleteConfirm' = None
    /\ notification' = None
    /\ formData' = InitialFormData
    /\ selectedFile' = None
    /\ editingResourceId' = None
    /\ deleteConfirmId' = None
    /\ submitCall' = Detach(submitCall)
    /\ deleteCalls' = { [c EXCEPT !.mounted = FALSE] : c \in deleteCalls }
    /\ UNCHANGED <<resources, appFilterVars, viewerVars, selectedResourceIds, backend,
                   notifications, session, storage, lastRequest, sideVars>>

\* the bookmark toggle of a card of the grid
toggleResourceSelection(id) ==
    /\ view = "dashboard"
    /\ \E i \in 1..Len(filteredResources) : filteredResources[i].id = id
    /\ selectedResourceIds' =
          IF id \in selectedResourceIds
          THEN selectedResourceIds \ {id}
          ELSE selectedResourceIds \cup {id}
    /\ UNCHANGED <<resources, appFilterVars, viewerVars, view, tagVars, notification,
                   formVars, backend, netVars>>

(***************************************************************************)
(* SpecImport: import of a backup file, with bookmarks loaded from local   *)
(* storage.                                                                *)
(***************************************************************************)
StoredBookmarks == SUBSET {"r1", "r2", "r3"}

InitImport ==
    /\ resources \in { c \in SeqUpTo(TagPool, MaxCatalog) : HasUniqueIds(c) }
    /\ backend = resources
    /\ selectedResourceIds \in StoredBookmarks
    /\ view = "dashboard"
    /\ DashboardInit
    /\ AdminInit
    /\ BackendInit

NextImport ==
    \/ OpenAdmin
    \/ onBack
    \/ \E id \in {"r1", "r2", "r3"} : toggleResourceSelection(id)
    \/ \E file \in ImportFiles : handleImportData(file)
    \/ ClearNotification

SpecImport == InitImport /\ [][NextImport]_vars

(***************************************************************************)
(* The HTTP backend and the object store.  Their code is not part of this  *)
(* repository: a request either fails (non-2xx or transport error) or has  *)
(* the effect the API contract gives it.                                   *)
(***************************************************************************)
\* the ids the backend has left to assign
NewIds == <<"n1">>

HasFreshId == \E k \in 1..Len(NewIds) : \A i \in 1..Len(backend) : backend[i].id # NewIds[k]

\* the id the backend assigns to a created resource: one it does not hold
FreshId ==
    LET free == SelectSeq(NewIds, LAMBDA id : \A i \in 1..Len(backend) : backend[i].id # id)
    IN Head(free)

HoldsId(seq, id) == \E i \in 1..Len(seq) : seq[i].id = id

\* POST /api/resources
BackendCreated(payload) ==
    [ id |-> FreshId, title |-> payload.title, description |-> payload.description,
      tags |-> payload.tags, type |-> payload.type, department |-> payload.department,
      subject |-> payload.subject, level |-> payload.level, status |-> payload.status,
      url |-> payload.url, external_url |-> payload.external_url,
      original_filename |-> payload.original_filename,
      relatedResourceIds |-> << >>, views |-> 0, downloads |-> 0 ]

\* PUT /api/resources/{id}
BackendUpdated(r, payload) ==
    [ r EXCEPT !.title = payload.title, !.description = payload.description,
               !.tags = payload.tags, !.type = payload.type,
               !.department = payload.department, !.subject = payload.subject,
               !.level = payload.level, !.status = payload.status,
               !.url = payload.url, !.external_url = payload.external_url,
               !.original_filename = payload.original_filename ]

\* PUT /api/resources/{id}/related
BackendRelated(seq, id, relatedIds) ==
    [ i \in 1..Len(seq) |->
        IF seq[i].id = id THEN [seq[i] EXCEPT !.relatedResourceIds = relatedIds] ELSE seq[i] ]

\* the public URL of an uploaded file
PublicUrl(file) == <<file.name>>

Request(method, id, auth) == Some([method |-> method, id |-> id, auth |-> auth])

(***************************************************************************)
(* Admin console: handleSubmit.  The handler runs up to its first await on *)
(* the click and resumes once per awaited result; it keeps working with    *)
(* the formData, selectedFile, editingResourceId and resources of the      *)
(* render in which the button was clicked.                                 *)
(***************************************************************************)
\* String.prototype.split(",")
RECURSIVE SplitComma(_)
SplitComma(s) ==
    IF ~Contains(s, ",") THEN <<s>>
    ELSE LET k == CHOOSE i \in 1..Len(s) : s[i] = "," /\ \A j \in 1..(i - 1) : s[j] # ","
         IN <<SubSeq(s, 1, k - 1)>> \o SplitComma(SubSeq(s, k + 1, Len(s)))

processedTags(tags) ==
    LET parts == SplitComma(tags)
        trimmed == [ i \in 1..Len(parts) |-> trim(parts[i]) ]
    IN SelectSeq(trimmed, LAMBDA t : Len(t) > 0)

Uncategorized == <<"u", "n", "c", "a", "t", "e", "g", "o", "r", "i", "z", "e", "d">>

\* editingResourceId ? resources.find(r => r.id === editingResourceId) : null
existingOf(id, seq) == IF id = None THEN None ELSE FindById(seq, TheValue(id))

\* existing?.url is truthy
existingHasUrl(existing) == existing # None /\ TheValue(existing).url # << >>

\* step 1 reaches its throw: "Please upload a file or provide a link."
urlIsMissing(fd, file, existing) ==
    /\ fd.type # "LINK"
    /\ file = None
    /\ trim(fd.url) = << >>
    /\ ~existingHasUrl(existing)

urlToSaveExistingFirst(fd, existing) ==
    IF fd.type = "LINK" THEN trim(fd.url)
    ELSE IF existingHasUrl(existing) THEN TheValue(existing).url
    ELSE trim(fd.url)

\* step 1 without an upload; the empty string stands for null
urlToSave(fd, existing) ==
    IF fd.type = "LINK" THEN trim(fd.url)
    ELSE IF trim(fd.url) # << >> THEN trim(fd.url)
    ELSE TheValue(existing).url

originalFilenameOfFileOnly(file, id, existing) ==
    IF file # None THEN Some(TheValue(file).name) ELSE None

\* selectedFile?.name ?? (editingResourceId ? existing?.original_filename ?? null : null)
originalFilename(file, id, existing) ==
    IF file # None THEN Some(TheValue(file).name)
    ELSE IF id # None /\ existing # None THEN TheValue(existing).original_filename
    ELSE None

\* step 2
payloadOf(fd, url, file, id, existing) ==
    [ title |-> fd.title, description |-> fd.description, type |-> fd.type,
      department |-> fd.department, subject |-> fd.subject, level |-> fd.level,
      tags |-> IF Len(processedTags(fd.tags)) > 0 THEN processedTags(fd.tags)
               ELSE <<Uncategorized>>,
      status |-> fd.status, url |-> url,
      external_url |-> IF fd.type = "LINK" THEN << >> ELSE trim(fd.external_url),
      original_filename |-> originalFilename(file, id, existing) ]

payloadOfCall(call) ==
    payloadOf(call.formData, call.url, call.selectedFile, call.editingResourceId,
              call.existing)

\* the required attribute of the title and description inputs
requiredFieldsFilled == formData.title # << >> /\ formData.description # << >>

ErrorNotice(text) == Notice("error", text, << >>, << >>, 0)

\* the catch block; setNotification reaches a mounted console only
submitFails(call, text) ==
    /\ notification' = IF call.mounted THEN ErrorNotice(text) ELSE notification
    /\ submitCall' = None

\* the form's onSubmit, up to the first await
handleSubmit ==
    /\ view = "admin"
    /\ ~submitDisabled
    /\ requiredFieldsFilled
    /\ submitCall = None
    /\ editingResourceId = None => HasFreshId /\ Len(notifications) < MaxCatalog
    /\ LET existing == existingOf(editingResourceId, resources)
           call == [ pc |-> "upload", formData |-> formData, selectedFile |-> selectedFile,
                     editingResourceId |-> editingResourceId, existing |-> existing,
                     url |-> << >>, savedId |-> None, mounted |-> TRUE,
                     started |-> [resources |-> resources, notifications |-> notifications] ]
       IN IF formData.type # "LINK" /\ selectedFile # None
          THEN /\ storage' = storage \cup {TheValue(selectedFile).name}
               /\ submitCall' = Some(call)
               /\ UNCHANGED notification
          ELSE IF urlIsMissing(formData, selectedFile, existing)
          THEN /\ notification' = ErrorNotice("Please upload a file or provide a link.")
               /\ UNCHANGED <<storage, submitCall>>
          ELSE /\ submitCall' =
                     Some([call EXCEPT !.pc = "token", !.url = urlToSave(formData, existing)])
               /\ UNCHANGED <<storage, notification>>
    /\ UNCHANGED <<resources, appFilterVars, viewerVars, selectedResourceIds, view, tagVars,
                   formVars, backend, notifications, deleteConfirmId, session, lastRequest,
                   deleteCalls, sideVars>>

\* await uploadToSupabasePublic(selectedFile) returns or throws
SubmitUploaded(ok) ==
    /\ submitCall # None
    /\ TheValue(submitCall).pc = "upload"
    /\ LET call == TheValue(submitCall)
       IN IF ok
          THEN /\ submitCall' = Some([call EXCEPT !.pc = "token",
                                                  !.url = PublicUrl(TheValue(call.selectedFile))])
               /\ UNCHANGED notification
          ELSE submitFails(call, "upload failed")
    /\ UNCHANGED <<resources, appFilterVars, viewerVars, selectedResourceIds, view, tagVars,
                   formVars, backend, notifications, deleteConfirmId, session, storage,
                   lastRequest, deleteCalls, sideVars>>

\* App.handleUpload: the new resource in front, counters zeroed, and a bell
\* notification when it is online
handleUpload(newResource) ==
    /\ resources' = <<[newResource EXCEPT !.views = 0, !.downloads = 0]>> \o resources
    /\ notifications' =
          IF newResource.status = "online"
          THEN <<[ type |-> newResource.type, subject |-> newResource.subject,
                   title |-> newResource.title ]>> \o notifications
          ELSE notifications

\* App.handleUpdateResource
handleUpdateResource(updatedResource) ==
    /\ resources' = [ i \in 1..Len(resources) |->
                        IF resources[i].id = updatedResource.id THEN updatedResource
                        ELSE resources[i] ]
    /\ UNCHANGED notifications

\* await getAccessToken(), then the PUT or POST of step 3 and its response
SubmitSaved(ok) ==
    /\ submitCall # None
    /\ TheValue(submitCall).pc = "token"
    /\ LET call == TheValue(submitCall)
           editing == call.editingResourceId # None
           id == IF editing THEN TheValue(call.editingResourceId) ELSE FreshId
           payload == payloadOfCall(call)
       IN IF session = None
          THEN /\ ~ok
               /\ submitFails(call, "Not logged in. Please sign in.")
               /\ UNCHANGED <<resources, notifications, backend, lastRequest>>
          ELSE /\ lastRequest' = Request(IF editing THEN "PUT" ELSE "POST", id, session)
               /\ IF ok /\ (editing => HoldsId(backend, id))
                  THEN /\ backend' =
                             IF editing
                             THEN [ i \in 1..Len(backend) |->
                                      IF backend[i].id = id
                                      THEN BackendUpdated(backend[i], payload)
                                      ELSE backend[i] ]
                             ELSE Append(backend, BackendCreated(payload))
                       /\ IF editing
                          THEN handleUpdateResource(TheValue(FindById(backend', id)))
                          ELSE handleUpload(BackendCreated(payload))
                       /\ submitCall' = Some([call EXCEPT !.pc = "related", !.savedId = Some(id)])
                       /\ UNCHANGED notification
                  ELSE /\ submitFails(call, "backend error")
                       /\ UNCHANGED <<resources, notifications, backend>>
    /\ UNCHANGED <<appFilterVars, viewerVars, selectedResourceIds, view, tagVars, formVars,
                   deleteConfirmId, session, storage, deleteCalls, sideVars>>

\* the PUT of the related ids and its response
SubmitRelated(ok) ==
    /\ submitCall # None
    /\ TheValue(submitCall).pc = "related"
    /\ LET call == TheValue(submitCall)
           id == TheValue(call.savedId)
       IN /\ lastRequest' = Request("PUT related", id, session)
          /\ IF ok /\ HoldsId(backend, id)
             THEN /\ backend' = BackendRelated(backend, id, call.formData.relatedIds)
                  /\ submitCall' = Some([call EXCEPT !.pc = "refetch"])
                  /\ UNCHANGED notification
             ELSE /\ submitFails(call, "backend error")
                  /\ UNCHANGED backend
    /\ UNCHANGED <<resources, appFilterVars, viewerVars, selectedResourceIds, view, tagVars,
                   formVars, notifications, deleteConfirmId, session, storage, deleteCalls, sideVars>>

\* the GET of the whole catalog and its response, then the success
\* notification and resetForm
SubmitRefetched(ok) ==
    /\ submitCall # None
    /\ TheValue(submitCall).pc = "refetch"
    /\ LET call == TheValue(submitCall)
       IN IF ok
          THEN /\ handleOverwriteDatabase(backend)
               /\ submitCall' = None
               /\ IF call.mounted
                  THEN /\ notification' =
                             Notice("success", "Resource saved", << >>, << >>, 0)
                       /\ editingResourceId' = None
                       /\ formData' = ClearedForm(formData)
                       /\ selectedFile' = None
                  ELSE UNCHANGED <<notification, formVars>>
          ELSE /\ submitFails(call, "backend error")
               /\ UNCHANGED <<resources, selectedResourceIds, formVars>>
    /\ UNCHANGED <<appFilterVars, viewerVars, view, tagVars, backend, notifications,
                   deleteConfirmId, session, storage, lastRequest, deleteCalls, sideVars>>

\* handleInputChange on the title and description inputs
ChangeTitle(value) ==
    /\ view = "admin"
    /\ formData' = [formData EXCEPT !.title = value]
    /\ UNCHANGED <<resources, appFilterVars, viewerVars, selectedResourceIds, view,
                   tagVars, notification, selectedFile, editingResourceId, backend, netVars>>

ChangeDescription(value) ==
    /\ view = "admin"
    /\ formData' = [formData EXCEPT !.description = value]
    /\ UNCHANGED <<resources, appFilterVars, viewerVars, selectedResourceIds, view,
                   tagVars, notification, selectedFile, editingResourceId, backend, netVars>>

(***************************************************************************)
(* Admin console: deleting a resource (the manage table), and the          *)
(* dashboard's Quick Add Link.                                             *)
(***************************************************************************)
IdsOfCatalog == { resources[i].id : i \in 1..Len(resources) }

\* the Delete button of a row
RequestDeleteResource(id) ==
    /\ view = "admin"
    /\ HoldsId(resources, id)
    /\ deleteConfirmId # Some(id)
    /\ deleteConfirmId' = Some(id)
    /\ UNCHANGED <<resources, appFilterVars, viewerVars, selectedResourceIds, view, tagVars,
                   notification, formVars, backend, notifications, session, storage,
                   lastRequest, submitCall, deleteCalls, sideVars>>

\* the X button next to Confirm
CancelDeleteResource ==
    /\ view = "admin"
    /\ deleteConfirmId # None
    /\ HoldsId(resources, TheValue(deleteConfirmId))
    /\ deleteConfirmId' = None
    /\ UNCHANGED <<resources, appFilterVars, viewerVars, selectedResourceIds, view, tagVars,
                   notification, formVars, backend, notifications, session, storage,
                   lastRequest, submitCall, deleteCalls, sideVars>>

\* the Confirm button: AdminConsole.handleDeleteResource up to its first
\* await; onDelete is App.handleDeleteResource of the current render, which
\* reads that render's selectedResourceIds
ConfirmDeleteResource ==
    /\ view = "admin"
    /\ deleteConfirmId # None
    /\ HoldsId(resources, TheValue(deleteConfirmId))
    /\ \A c \in deleteCalls : c.id # TheValue(deleteConfirmId)
    /\ deleteCalls' = deleteCalls \cup
          { [ id |-> TheValue(deleteConfirmId), seen |-> selectedResourceIds,
              mounted |-> TRUE ] }
    /\ UNCHANGED <<resources, appFilterVars, viewerVars, selectedResourceIds, view, tagVars,
                   notification, formVars, backend, notifications, deleteConfirmId, session,
                   storage, lastRequest, submitCall, sideVars>>

\* App.handleDeleteResource as bound when the call started
onDelete(call) ==
    /\ resources' = SelectSeq(resources, LAMBDA r : r.id # call.id)
    /\ selectedResourceIds' =
          IF call.id \in call.seen THEN call.seen \ {call.id} ELSE selectedResourceIds

\* await getAccessToken(), the DELETE and its response, then
\* setDeleteConfirmId(null) in the button's handler
DeleteResponded(call, ok) ==
    /\ call \in deleteCalls
    /\ deleteCalls' = deleteCalls \ {call}
    /\ deleteConfirmId' = IF call.mounted THEN None ELSE deleteConfirmId
    /\ IF session = None
       THEN /\ ~ok
            /\ notification' = IF call.mounted
                               THEN ErrorNotice("Failed to delete resource.")
                               ELSE notification
            /\ UNCHANGED <<resources, selectedResourceIds, backend, lastRequest>>
       ELSE /\ lastRequest' = Request("DELETE", call.id, session)
            /\ IF ok /\ HoldsId(backend, call.id)
               THEN /\ backend' = SelectSeq(backend, LAMBDA r : r.id # call.id)
                    /\ onDelete(call)
                    /\ notification' =
                          IF call.mounted
                          THEN Notice("success", "Resource deleted.", << >>, << >>, 0)
                          ELSE notification
               ELSE /\ notification' = IF call.mounted
                                       THEN ErrorNotice("Failed to delete resource.")
                                       ELSE notification
                    /\ UNCHANGED <<resources, selectedResourceIds, backend>>
    /\ UNCHANGED <<appFilterVars, viewerVars, view, tagVars, formVars, notifications,
                   session, storage, submitCall, sideVars>>

\* what the admin types into the prompt
QuickLinkUrls == { <<"u">> }

\* Quick Add Link: the POST carries no Authorization header
handleQuickLinkAdd(url, ok) ==
    /\ view = "dashboard"
    /\ url # << >>
    /\ HasFreshId
    /\ Len(notifications) < MaxCatalog
    /\ LET payload == [ title |-> <<"Q">> \o url, description |-> <<"a">>, type |-> "LINK",
                        department |-> "General", subject |-> "GEN",
                        level |-> "Faculty/Admin", tags |-> << <<"q">> >>,
                        status |-> "online", url |-> url, external_url |-> << >>,
                        original_filename |-> None ]
       IN /\ lastRequest' = Request("POST", FreshId, None)
          /\ IF ok
             THEN /\ backend' = Append(backend, BackendCreated(payload))
                  /\ handleUpload(BackendCreated(payload))
             ELSE UNCHANGED <<backend, resources, notifications>>
    /\ UNCHANGED <<appFilterVars, viewerVars, selectedResourceIds, view, tagVars,
                   notification, formVars, deleteConfirmId, session, storage, submitCall,
                   deleteCalls, sideVars>>

(***************************************************************************)
(* SpecSubmit: creating and editing through the form, against a backend    *)
(* whose every request may fail, with or without a session.                *)
(***************************************************************************)
\* r1: an uploaded PDF; r2: a resource stored without a url (url is optional)
SubmitPool ==
    { [ Res("r1", <<"a">>, <<"a">>, << <<"a">> >>, "PDF", "CS", "Undergraduate", "online",
            <<"r2">>, 0) EXCEPT !.url = <<"a">>, !.original_filename = Some("f0") ],
      [ Res("r2", <<"b">>, <<"b">>, << >>, "VIDEO", "MATH", "Graduate", "offline",
            << >>, 0) EXCEPT !.url = << >> ] }

InitSubmit ==
    /\ resources \in { c \in SeqUpTo(SubmitPool, MaxCatalog) : HasUniqueIds(c) }
    /\ backend = resources
    /\ selectedResourceIds = {}
    /\ view = "admin"
    /\ DashboardInit
    /\ AdminInit
    /\ session \in { None, Some("token") }
    /\ storage = {}
    /\ lastRequest = None

\* the admin fills the form between submits and may pick a row to edit while
\* one is under way; a behaviour is followed through the first submit that
\* reaches the backend
NextSubmit ==
    \/ submitCall = None /\ ChangeTitle(<<"a">>)
    \/ submitCall = None /\ ChangeDescription(<<"a">>)
    \/ submitCall = None /\ \E value \in TypedUrls : ChangeUrl(value)
    \/ submitCall = None /\ ChangeExternalUrl(<<"u">>)
    \/ submitCall = None /\ \E type \in {"LINK", "IMAGE", "DOC"} : ClickType(type)
    \/ submitCall = None /\ handleFileChange([name |-> "f1"])
    \/ submitCall = None /\ resetForm
    \/ \E i \in 1..Len(resources) : handleEditClick(resources[i])
    \/ lastRequest = None /\ handleSubmit
    \/ \E ok \in BOOLEAN : SubmitUploaded(ok)
    \/ \E ok \in BOOLEAN : SubmitSaved(ok)
    \/ \E ok \in BOOLEAN : SubmitRelated(ok)
    \/ \E ok \in BOOLEAN : SubmitRefetched(ok)

SpecSubmit == InitSubmit /\ [][NextSubmit]_vars

(***************************************************************************)
(* SpecDelete: deleting from the manage table and Quick Add Link, while    *)
(* the admin moves between the console and the dashboard and bookmarks     *)
(* resources there.                                                        *)
(***************************************************************************)
InitDelete ==
    /\ resources \in { c \in SeqUpTo(SubmitPool, MaxCatalog) : HasUniqueIds(c) }
    /\ backend = resources
    /\ selectedResourceIds \in SUBSET {"r1"}
    /\ view = "dashboard"
    /\ DashboardInit
    /\ AdminInit
    /\ session \in { None, Some("token") }
    /\ storage = {}
    /\ lastRequest = None

NextDelete ==
    \/ OpenAdmin
    \/ onBack
    \/ \E id \in IdsOfCatalog : toggleResourceSelection(id)
    \/ \E id \in IdsOfCatalog : RequestDeleteResource(id)
    \/ CancelDeleteResource
    \/ ConfirmDeleteResource
    \/ \E call \in deleteCalls : \E ok \in BOOLEAN : DeleteResponded(call, ok)
    \/ \E url \in QuickLinkUrls : \E ok \in BOOLEAN : handleQuickLinkAdd(url, ok)
    \/ ClearNotification

SpecDelete == InitDelete /\ [][NextDelete]_vars

(***************************************************************************)
(* SpecMetrics: the view and download counters, on the dashboard and       *)
(* across an edit submitted in the console.                                *)
(***************************************************************************)
\* handleIncrementDownload: setResources(prev => prev.map(...))
IncrementDownload(seq, id) ==
    [ i \in 1..Len(seq) |->
        IF seq[i].id = id THEN [seq[i] EXCEPT !.downloads = @ + 1] ELSE seq[i] ]

\* POST /api/resources/{id}/download, sent without awaiting or checking
BackendDownloadOutcomes(id) == { backend, IncrementDownload(backend, id) }

\* the viewer's Download button (onDownload)
handleDownload ==
    /\ view = "dashboard"
    /\ selectedResource # None
    /\ \A i \in 1..Len(resources) :
          resources[i].id = TheValue(selectedResource).id => resources[i].downloads < MaxViews
    /\ resources' = IncrementDownload(resources, TheValue(selectedResource).id)
    /\ backend' \in BackendDownloadOutcomes(TheValue(selectedResource).id)
    /\ UNCHANGED <<appFilterVars, viewerVars, selectedResourceIds, view, tagVars,
                   notification, formVars, netVars>>

InitMetrics ==
    /\ resources \in { c \in SeqUpTo(SubmitPool, MaxCatalog) : HasUniqueIds(c) }
    /\ backend = resources
    /\ selectedResourceIds = {}
    /\ view = "dashboard"
    /\ DashboardInit
    /\ AdminInit
    /\ BackendInit

NextMetrics ==
    \/ ClickGridCard
    \/ CloseViewer
    \/ handleDownload
    \/ OpenAdmin
    \/ onBack
    \/ submitCall = None /\ \E i \in 1..Len(resources) : handleEditClick(resources[i])
    \/ lastRequest = None /\ handleSubmit
    \/ \E ok \in BOOLEAN : SubmitSaved(ok)
    \/ \E ok \in BOOLEAN : SubmitRelated(ok)
    \/ \E ok \in BOOLEAN : SubmitRefetched(ok)

SpecMetrics == InitMetrics /\ [][NextMetrics]_vars

(***************************************************************************)
(* SpecPopular: the Popular Resources section, over catalogs long enough   *)
(* for the ranking to be cut, with equal and zero view counts.             *)
(***************************************************************************)
PopularIds == <<"r1", "r2", "r3", "r4", "r5">>

PopularEntries ==
    { [status |-> "online", views |-> v] : v \in 0..MaxViews }
        \cup { [status |-> "offline", views |-> MaxViews] }

ResP(id, entry) ==
    Res(id, <<"a">>, << >>, << >>, "PDF", "CS", "Undergraduate", entry.status, << >>,
        entry.views)

PopularCatalogs ==
    UNION { { [i \in 1..n |-> ResP(PopularIds[i], f[i])] : f \in [1..n -> PopularEntries] }
            : n \in 0..Len(PopularIds) }

InitPopular ==
    /\ resources \in PopularCatalogs
    /\ backend = resources
    /\ selectedResourceIds = {}
    /\ view = "dashboard"
    /\ DashboardInit
    /\ AdminInit
    /\ BackendInit

NextPopular ==
    \/ \E term \in {<< >>, <<"a">>} : SetSearchTerm(term)
    \/ \E filter \in {"All", "PDF"} : SetActiveFilter(filter)
    \/ toggleSubjectFilter("CS")
    \/ \E level \in {"All", "Graduate"} : SetSelectedLevel(level)

SpecPopular == InitPopular /\ [][NextPopular]_vars

(***************************************************************************)
(* Viewer modal: the preview resolver (getBestPreviewUrl and its           *)
(* predicates).  new URL() is computed for the URLs the inputs are made    *)
(* of: an http or https scheme followed by "//", a host without port or    *)
(* credentials, a path without dot segments, and an unescaped query; any   *)
(* input without such a scheme makes new URL() throw.                      *)
(***************************************************************************)
\* String.prototype.startsWith / endsWith
startsWith(s, t) == OccursAt(s, t, 1)

endsWith(s, t) == Len(t) <= Len(s) /\ OccursAt(s, t, Len(s) - Len(t) + 1)

DropFirst(s, n) == SubSeq(s, n + 1, Len(s))

\* String.prototype.indexOf(c, from - 1) + 1: 0 when c does not occur
RECURSIVE IndexFrom(_, _, _)
IndexFrom(s, c, from) ==
    IF from > Len(s) THEN 0
    ELSE IF s[from] = c THEN from
    ELSE IndexFrom(s, c, from + 1)

\* String.prototype.split(c)
RECURSIVE SplitOn(_, _)
SplitOn(s, c) ==
    LET k == IndexFrom(s, c, 1)
    IN IF k = 0 THEN <<s>>
       ELSE <<SubSeq(s, 1, k - 1)>> \o SplitOn(DropFirst(s, k), c)

\* /\.(e1|e2|...)$/i.test(url.split("?")[0])
HasExtension(url, exts) ==
    LET beforeQuery == SplitOn(url, "?")[1]
    IN \E k \in 1..Len(exts) : endsWith(toLowerCase(beforeQuery), <<".">> \o exts[k])

OfficeExtensions == <<<<"d", "o", "c">>, <<"d", "o", "c", "x">>, <<"p", "p", "t">>, <<"p", "p", "t", "x">>, <<"x", "l", "s">>, <<"x", "l", "s", "x">>>>

ImageExtensions == <<<<"p", "n", "g">>, <<"j", "p", "g">>, <<"j", "p", "e", "g">>, <<"g", "i", "f">>, <<"w", "e", "b", "p">>, <<"s", "v", "g">>>>

VideoExtensions == <<<<"m", "p", "4">>, <<"w", "e", "b", "m">>, <<"o", "g", "g">>, <<"m", "o", "v">>, <<"m", "4", "v">>>>

isProbablyOfficeDoc(url) == HasExtension(url, OfficeExtensions)

isPdf(url) == HasExtension(url, << <<"p", "d", "f">> >>)

isImage(url) == HasExtension(url, ImageExtensions)

isVideoFile(url) == HasExtension(url, VideoExtensions)

HttpPrefix == <<"h", "t", "t", "p", ":", "/", "/">>
HttpsPrefix == <<"h", "t", "t", "p", "s", ":", "/", "/">>
WwwPrefix == <<"w", "w", "w", ".">>

\* ^(https?:\/\/)?(www\.)? of the two host patterns, case-insensitive
AfterSchemeAndWww(url) ==
    LET lower == toLowerCase(url)
        \* the optional group (t)? at the start of a pattern
        SkipOptional(s, t) == IF startsWith(s, t) THEN DropFirst(s, Len(t)) ELSE s
    IN SkipOptional(IF startsWith(lower, HttpsPrefix) THEN DropFirst(lower, Len(HttpsPrefix))
                    ELSE SkipOptional(lower, HttpPrefix),
                    WwwPrefix)

isYouTubeUrl(url) ==
    \/ startsWith(AfterSchemeAndWww(url), <<"y", "o", "u", "t", "u", "b", "e", ".", "c", "o", "m", "/">>)
    \/ startsWith(AfterSchemeAndWww(url), <<"y", "o", "u", "t", "u", ".", "b", "e", "/">>)

isVimeoUrl(url) == startsWith(AfterSchemeAndWww(url), <<"v", "i", "m", "e", "o", ".", "c", "o", "m", "/">>)

\* new URL(url): null when it throws, else hostname, pathname and query
ParseUrl(url) ==
    LET lower == toLowerCase(url)
        rest  == IF startsWith(lower, HttpsPrefix) THEN Some(DropFirst(url, Len(HttpsPrefix)))
                 ELSE IF startsWith(lower, HttpPrefix) THEN Some(DropFirst(url, Len(HttpPrefix)))
                 ELSE None
    IN IF rest = None THEN None
       ELSE LET r     == TheValue(rest)
                \* the end of the host: the first "/", "?" or "#", or the end of the input
                RECURSIVE HostEnd(_, _)
                HostEnd(t, i) ==
                    IF i > Len(t) \/ t[i] \in {"/", "?", "#"} THEN i - 1 ELSE HostEnd(t, i + 1)
                h     == HostEnd(r, 1)
                host  == SubSeq(r, 1, h)
                tail  == SplitOn(DropFirst(r, h), "#")[1]
                q     == IndexFrom(tail, "?", 1)
                path  == IF q = 0 THEN tail ELSE SubSeq(tail, 1, q - 1)
            IN IF host = << >> \/ Contains(host, " ")
               THEN None
               ELSE Some([ hostname |-> toLowerCase(host),
                           pathname |-> IF path = << >> THEN <<"/">> ELSE path,
                           search   |-> IF q = 0 THEN << >> ELSE DropFirst(tail, q) ])

\* u.searchParams.get(name): the value of the first pair with the name, or null
searchParamsGet(u, name) ==
    LET RECURSIVE FirstParam(_)
        FirstParam(pairs) ==
            IF pairs = << >> THEN None
            ELSE LET pair == Head(pairs)
                     e    == IndexFrom(pair, "=", 1)
                     key  == IF e = 0 THEN pair ELSE SubSeq(pair, 1, e - 1)
                     val  == IF e = 0 THEN << >> ELSE DropFirst(pair, e)
                 IN IF pair # << >> /\ key = name THEN Some(val)
                    ELSE FirstParam(Tail(pairs))
    IN FirstParam(SplitOn(u.search, "&"))

YouTubeEmbedPrefix == <<"h", "t", "t", "p", "s", ":", "/", "/", "w", "w", "w", ".", "y", "o", "u", "t", "u", "b", "e", ".", "c", "o", "m", "/", "e", "m", "b", "e", "d", "/">>

getYouTubeEmbedUrl(url) ==
    LET parsed == ParseUrl(url)
        \* String.prototype.replace("/", ""): the first "/" removed
        RemoveFirstSlash(s) ==
            LET k == IndexFrom(s, "/", 1)
            IN IF k = 0 THEN s ELSE SubSeq(s, 1, k - 1) \o DropFirst(s, k)
    IN IF parsed = None THEN None
       ELSE LET u == TheValue(parsed)
            IN IF includes(u.hostname, <<"y", "o", "u", "t", "u", ".", "b", "e">>)
               THEN LET id == RemoveFirstSlash(u.pathname)
                    IN IF id # << >> THEN Some(YouTubeEmbedPrefix \o id) ELSE None
               ELSE LET id == searchParamsGet(u, <<"v">>)
                    IN IF id # None /\ TheValue(id) # << >>
                       THEN Some(YouTubeEmbedPrefix \o TheValue(id))
                       ELSE IF includes(u.pathname, <<"/", "e", "m", "b", "e", "d", "/">>) THEN Some(url)
                       ELSE None

VimeoPlayerPrefix == <<"h", "t", "t", "p", "s", ":", "/", "/", "p", "l", "a", "y", "e", "r", ".", "v", "i", "m", "e", "o", ".", "c", "o", "m", "/", "v", "i", "d", "e", "o", "/">>

getVimeoEmbedUrl(url) ==
    LET parsed == ParseUrl(url)
    IN IF parsed = None THEN None
       ELSE LET \* u.pathname.split("/").filter(Boolean)
                parts == SelectSeq(SplitOn(TheValue(parsed).pathname, "/"), LAMBDA p : p # << >>)
            IN IF parts # << >> /\ parts[1] # << >>
               THEN Some(VimeoPlayerPrefix \o parts[1])
               ELSE None

\* encodeURIComponent: null when it throws URIError (a surrogate without its pair)
RECURSIVE encodeURIComponent(_)
encodeURIComponent(s) ==
    IF s = << >> THEN Some(<< >>)
    ELSE IF Head(s) = HighSurrogate THEN None
    ELSE LET rest == encodeURIComponent(Tail(s))
             \* the characters encodeURIComponent leaves alone, among those of the inputs
             IsUnreservedChar(c) ==
                 \/ \E k \in 1..Len(UpperCaseLetters) : c = UpperCaseLetters[k] \/ c = LowerCaseLetters[k]
                 \/ c \in {"0", "1", "2", "3", "4", "5", "6", "7", "8", "9", "-", "_", "."}
             PercentEncoded(c) ==
                 CASE c = " " -> <<"%", "2", "0">>
                   [] c = "#" -> <<"%", "2", "3">>
                   [] c = "&" -> <<"%", "2", "6">>
                   [] c = "/" -> <<"%", "2", "F">>
                   [] c = ":" -> <<"%", "3", "A">>
                   [] c = "=" -> <<"%", "3", "D">>
                   [] c = "?" -> <<"%", "3", "F">>
         IN IF rest = None THEN None
            ELSE Some((IF IsUnreservedChar(Head(s)) THEN <<Head(s)>> ELSE PercentEncoded(Head(s)))
                      \o TheValue(rest))

OfficeViewerPrefix ==
    <<"h", "t", "t", "p", "s", ":", "/", "/", "v", "i", "e", "w", ".", "o", "f", "f", "i", "c", "e", "a", "p", "p", "s", ".", "l", "i", "v", "e", ".", "c", "o", "m", "/", "o", "p", "/", "e", "m", "b", "e", "d", ".", "a", "s", "p", "x", "?", "s", "r", "c", "=">>

\* null when encodeURIComponent throws
getOfficeViewerUrl(fileUrl) ==
    LET encoded == encodeURIComponent(fileUrl)
    IN IF encoded = None THEN None ELSE Some(OfficeViewerPrefix \o TheValue(encoded))

DriveHost == <<"d", "r", "i", "v", "e", ".", "g", "o", "o", "g", "l", "e", ".", "c", "o", "m">>
DocsHost == <<"d", "o", "c", "s", ".", "g", "o", "o", "g", "l", "e", ".", "c", "o", "m">>
FileSegment == <<"/", "f", "i", "l", "e", "/", "d", "/">>
DocumentSegment == <<"/", "d", "o", "c", "u", "m", "e", "n", "t", "/", "d", "/">>
PresentationSegment == <<"/", "p", "r", "e", "s", "e", "n", "t", "a", "t", "i", "o", "n", "/", "d", "/">>
SpreadsheetsSegment == <<"/", "s", "p", "r", "e", "a", "d", "s", "h", "e", "e", "t", "s", "/", "d", "/">>

GooglePreview(host, segment, id) ==
    HttpsPrefix \o host \o segment \o id \o <<"/", "p", "r", "e", "v", "i", "e", "w">>

getGoogleDrivePreviewUrl(url) ==
    LET parsed == ParseUrl(url)
    IN IF parsed = None THEN None
       ELSE LET u  == TheValue(parsed)
                parts == SplitOn(u.pathname, "/")
                \* parts.findIndex(p => p === "d") + 1: 0 when there is none
                RECURSIVE FindPart(_)
                FindPart(i) ==
                    IF i > Len(parts) THEN 0
                    ELSE IF parts[i] = <<"d">> THEN i
                    ELSE FindPart(i + 1)
                idx == FindPart(1)
                \* idx >= 0 ? parts[idx + 1] : null, an absent or empty part being falsy
                id == IF idx = 0 \/ idx + 1 > Len(parts) \/ parts[idx + 1] = << >>
                      THEN None
                      ELSE Some(parts[idx + 1])
            IN IF includes(u.hostname, DriveHost) /\ includes(u.pathname, FileSegment)
               THEN IF id = None THEN None
                    ELSE Some(GooglePreview(DriveHost, FileSegment, TheValue(id)))
               ELSE IF includes(u.hostname, DocsHost)
                       /\ (\/ includes(u.pathname, DocumentSegment)
                           \/ includes(u.pathname, PresentationSegment)
                           \/ includes(u.pathname, SpreadsheetsSegment))
                       /\ id # None
               THEN IF includes(u.pathname, DocumentSegment)
                    THEN Some(GooglePreview(DocsHost, DocumentSegment, TheValue(id)))
                    ELSE IF includes(u.pathname, PresentationSegment)
                    THEN Some(GooglePreview(DocsHost, PresentationSegment, TheValue(id)))
                    ELSE Some(GooglePreview(DocsHost, SpreadsheetsSegment, TheValue(id)))
               ELSE None

Preview(kind, url) == [kind |-> kind, url |-> url]

\* the render throws: no result
Thrown == Preview("throws", << >>)

\* const candidate = primary || external || ""
candidateOf(resource) ==
    IF trim(resource.url) # << >> THEN trim(resource.url) ELSE trim(resource.external_url)

getBestPreviewUrl(resource) ==
    LET candidate == candidateOf(resource)
        youtube   == IF isYouTubeUrl(candidate) THEN getYouTubeEmbedUrl(candidate) ELSE None
        vimeo     == IF isVimeoUrl(candidate) THEN getVimeoEmbedUrl(candidate) ELSE None
        g         == getGoogleDrivePreviewUrl(candidate)
    IN IF candidate = << >> THEN Preview("none", << >>)
       ELSE IF youtube # None THEN Preview("iframe", TheValue(youtube))
       ELSE IF vimeo # None THEN Preview("iframe", TheValue(vimeo))
       ELSE IF g # None THEN Preview("iframe", TheValue(g))
       ELSE IF isProbablyOfficeDoc(candidate)
            THEN IF getOfficeViewerUrl(candidate) = None THEN Thrown
                 ELSE Preview("iframe", TheValue(getOfficeViewerUrl(candidate)))
       ELSE IF isPdf(candidate) THEN Preview("pdf", candidate)
       ELSE IF isImage(candidate) THEN Preview("image", candidate)
       ELSE IF isVideoFile(candidate) THEN Preview("video", candidate)
       ELSE Preview("link", candidate)

\* what the open viewer resolves for its resource
preview ==
    IF selectedResource = None THEN None
    ELSE Some(getBestPreviewUrl(TheValue(selectedResource)))

(***************************************************************************)
(* SpecPreview: the viewer opened on a resource whose url and external_url *)
(* are any of the strings below (typed in the form or imported).           *)
(***************************************************************************)
VideoId == <<"a", "b", "c">>

UrlSchemes == { << >>, HttpsPrefix, <<"H", "T", "T", "P", ":", "/", "/">> }

UrlWwws == { << >>, WwwPrefix }

UrlHosts ==
    { <<"y", "o", "u", "t", "u", "b", "e", ".", "c", "o", "m">>,
      <<"y", "o", "u", "t", "u", ".", "b", "e">>,
      <<"v", "i", "m", "e", "o", ".", "c", "o", "m">>,
      DriveHost, DocsHost,
      <<"x", ".", "e", "d", "u">> }

UrlPaths ==
    { << >>, <<"/">>,
      <<"/", "w", "a", "t", "c", "h">>,
      <<"/">> \o VideoId,
      <<"/", "e", "m", "b", "e", "d", "/">> \o VideoId,
      FileSegment \o VideoId \o <<"/", "v", "i", "e", "w">>,
      DocumentSegment \o VideoId \o <<"/", "e", "d", "i", "t">>,
      <<"/", "n", "o", "t", "e", "s", ".", "p", "d", "f">>,
      <<"/", "a", ".", "D", "O", "C", "X">>,
      <<"/", "p", ".", "p", "n", "g">>,
      <<"/", "m", ".", "m", "p", "4">> }

UrlQueries == { << >>, <<"?", "v", "=">> \o VideoId, <<"?", "f", "=", "a", ".", "p", "d", "f">> }

BuiltUrls ==
    { s \o w \o h \o p \o q :
        s \in UrlSchemes, w \in UrlWwws, h \in UrlHosts, p \in UrlPaths, q \in UrlQueries }

OddUrls ==
    { << >>, <<" ">>,
      <<" ">> \o HttpsPrefix \o <<"x", ".", "e", "d", "u", "/", "n", "o", "t", "e", "s", ".", "p", "d", "f">> \o <<" ">>,
      <<HighSurrogate>> \o <<".", "d", "o", "c", "x">>,
      <<"n", "o", "t", " ", "a", " ", "u", "r", "l">> }

PreviewUrls == BuiltUrls \cup OddUrls

ExternalUrls == { << >>, <<" ">>, HttpsPrefix \o <<"x", ".", "e", "d", "u", "/", "p", ".", "p", "n", "g">> }

ResV(url, external) ==
    [ Res("r1", <<"a">>, << >>, << >>, "VIDEO", "CS", "Undergraduate", "online", << >>, 0)
        EXCEPT !.url = url, !.external_url = external ]

InitPreview ==
    /\ \E url \in PreviewUrls, external \in ExternalUrls : resources = <<ResV(url, external)>>
    /\ backend = resources
    /\ selectedResourceIds = {}
    /\ view = "dashboard"
    /\ DashboardInit
    /\ AdminInit
    /\ BackendInit

NextPreview ==
    \/ ClickGridCard
    \/ CloseViewer

SpecPreview == InitPreview /\ [][NextPreview]_vars

(***************************************************************************)
(* SpecDeletes: deletes confirmed one after the other in the manage table, *)
(* each answered at any later time; the bookmarks are of catalog resources *)
(* and the admin stays in the console.                                     *)
(***************************************************************************)
InitDeletes ==
    /\ resources \in { c \in SeqUpTo(SubmitPool, MaxCatalog) : HasUniqueIds(c) }
    /\ backend = resources
    /\ selectedResourceIds \in SUBSET IdsOfCatalog
    /\ view = "admin"
    /\ DashboardInit
    /\ AdminInit
    /\ session \in { None, Some("token") }
    /\ storage = {}
    /\ lastRequest = None

NextDeletes ==
    \/ \E id \in IdsOfCatalog : RequestDeleteResource(id)
    \/ CancelDeleteResource
    \/ ConfirmDeleteResource
    \/ \E call \in deleteCalls : \E ok \in BOOLEAN : DeleteResponded(call, ok)
    \/ ClearNotification

SpecDeletes == InitDeletes /\ [][NextDeletes]_vars

(***************************************************************************)
(* SpecEditing: the form in edit mode while the catalog changes under it   *)
(* (delete from the manage table, import of a backup, edit submit).        *)
(***************************************************************************)
InitEditing ==
    /\ resources \in { c \in SeqUpTo(SubmitPool, MaxCatalog) : HasUniqueIds(c) }
    /\ backend = resources
    /\ selectedResourceIds = {}
    /\ view = "admin"
    /\ DashboardInit
    /\ AdminInit
    /\ BackendInit

NextEditing ==
    \/ submitCall = None /\ \E i \in 1..Len(resources) : handleEditClick(resources[i])
    \/ \E id \in IdsOfCatalog : RequestDeleteResource(id)
    \/ ConfirmDeleteResource
    \/ \E call \in deleteCalls : \E ok \in BOOLEAN : DeleteResponded(call, ok)
    \/ \E file \in ImportFiles : handleImportData(file)
    \/ lastRequest = None /\ handleSubmit
    \/ \E ok \in BOOLEAN : SubmitSaved(ok)
    \/ \E ok \in BOOLEAN : SubmitRelated(ok)
    \/ \E ok \in BOOLEAN : SubmitRefetched(ok)

SpecEditing == InitEditing /\ [][NextEditing]_vars

(***************************************************************************)
(* App: the initial catalog load (the effect run once on mount).  The GET  *)
(* is answered from the backend's catalog at some moment after it was sent *)
(* and the response reaches the client at some later moment.               *)
(***************************************************************************)
LoadSent == Some([ stage |-> "sent", ok |-> FALSE, data |-> << >> ])

\* GET /api/resources is served: a 2xx with the catalog, or a failure
LoadServed(ok) ==
    /\ loadCall = LoadSent
    /\ loadCall' = Some([ stage |-> "answered", ok |-> ok,
                          data |-> IF ok THEN backend ELSE << >> ])
    /\ UNCHANGED <<resources, appFilterVars, viewerVars, selectedResourceIds, view, tagVars,
                   notification, formVars, backend, notifications, deleteConfirmId, session,
                   storage, lastRequest, submitCall, deleteCalls, chat>>

\* the effect resumes: setResources(data), or the catch that only logs
LoadResponded ==
    /\ loadCall # None
    /\ TheValue(loadCall).stage = "answered"
    /\ loadCall' = None
    /\ resources' = IF TheValue(loadCall).ok THEN TheValue(loadCall).data ELSE resources
    /\ UNCHANGED <<appFilterVars, viewerVars, selectedResourceIds, view, tagVars,
                   notification, formVars, backend, notifications, deleteConfirmId, session,
                   storage, lastRequest, submitCall, deleteCalls, chat>>

(***************************************************************************)
(* SpecLoad: the dashboard from the moment the App is mounted, with the    *)
(* seed catalog on screen and the initial load in flight.                  *)
(***************************************************************************)
InitLoad ==
    /\ backend \in { c \in SeqUpTo(SubmitPool, MaxCatalog) : HasUniqueIds(c) }
    /\ resources \in { << >>, backend }
    /\ selectedResourceIds = {}
    /\ view = "dashboard"
    /\ notifications = << >>
    /\ searchTerm = << >>
    /\ activeFilter = "All"
    /\ selectedSubjects = << >>
    /\ selectedLevel = "All"
    /\ selectedResource = None
    /\ recentResourceIds = << >>
    /\ chat = ChatInit
    /\ loadCall = LoadSent
    /\ AdminInit
    /\ BackendInit

NextLoad ==
    \/ \E ok \in BOOLEAN : LoadServed(ok)
    \/ LoadResponded
    \/ \E url \in QuickLinkUrls : \E ok \in BOOLEAN : handleQuickLinkAdd(url, ok)
    \/ ClickGridCard
    \/ CloseViewer

SpecLoad == InitLoad /\ [][NextLoad]_vars

(***************************************************************************)
(* AIChatWidget: typing, sending and the answer of the chat service        *)
(* (sendMessageToGemini).  handleSend has no try/catch around the awaited  *)
(* call, so a rejected request ends the handler at the await.              *)
(***************************************************************************)
ChatInputs == { << >>, <<" ">>, <<"a">> }

\* the input's onChange
ChatType(text) ==
    /\ view = "dashboard"
    /\ chat.inputText # text
    /\ chat' = [chat EXCEPT !.inputText = text]
    /\ UNCHANGED <<resources, appFilterVars, viewerVars, selectedResourceIds, view, tagVars,
                   notification, formVars, backend, notifications, deleteConfirmId, session,
                   storage, lastRequest, submitCall, deleteCalls, loadCall>>

\* the Send button or Enter, up to the await
handleSend ==
    /\ view = "dashboard"
    /\ ~(trim(chat.inputText) = << >> \/ chat.isLoading)
    /\ Len(chat.messages) < MaxMessages
    /\ chat.requests + chat.orphans < MaxMessages
    /\ chat' = [chat EXCEPT !.messages = Append(@, "user"),
                            !.inputText = << >>,
                            !.isLoading = TRUE,
                            !.requests = @ + 1]
    /\ UNCHANGED <<resources, appFilterVars, viewerVars, selectedResourceIds, view, tagVars,
                   notification, formVars, backend, notifications, deleteConfirmId, session,
                   storage, lastRequest, submitCall, deleteCalls, loadCall>>

\* sendMessageToGemini settles: with the text (handleSend resumes), or by
\* throwing (API base unset, non-2xx, network error), which nothing catches
ChatResponded(ok) ==
    /\ chat.requests > 0
    /\ chat' = IF ok
               THEN [chat EXCEPT !.messages = Append(@, "model"),
                                 !.isLoading = FALSE,
                                 !.requests = @ - 1]
               ELSE [chat EXCEPT !.requests = @ - 1]
    /\ UNCHANGED <<resources, appFilterVars, viewerVars, selectedResourceIds, view, tagVars,
                   notification, formVars, backend, notifications, deleteConfirmId, session,
                   storage, lastRequest, submitCall, deleteCalls, loadCall>>

\* a request of an unmounted widget settles: its state updates go nowhere
OrphanResponded ==
    /\ chat.orphans > 0
    /\ chat' = [chat EXCEPT !.orphans = @ - 1]
    /\ UNCHANGED <<resources, appFilterVars, viewerVars, selectedResourceIds, view, tagVars,
                   notification, formVars, backend, notifications, deleteConfirmId, session,
                   storage, lastRequest, submitCall, deleteCalls, loadCall>>

\* the trash button: back to the welcome message
clearChat ==
    /\ view = "dashboard"
    /\ chat.messages # ChatInit.messages
    /\ chat' = [chat EXCEPT !.messages = ChatInit.messages]
    /\ UNCHANGED <<resources, appFilterVars, viewerVars, selectedResourceIds, view, tagVars,
                   notification, formVars, backend, notifications, deleteConfirmId, session,
                   storage, lastRequest, submitCall, deleteCalls, loadCall>>

(***************************************************************************)
(* SpecChat: the chat widget on the dashboard; every request sent is       *)
(* eventually settled, one way or the other.                               *)
(***************************************************************************)
InitChat ==
    /\ resources \in SeqUpTo(SubmitPool, 1)
    /\ backend = resources
    /\ selectedResourceIds = {}
    /\ view = "dashboard"
    /\ DashboardInit
    /\ AdminInit
    /\ BackendInit

NextChat ==
    \/ \E text \in ChatInputs : ChatType(text)
    \/ handleSend
    \/ \E ok \in BOOLEAN : ChatResponded(ok)
    \/ OrphanResponded
    \/ clearChat
    \/ OpenAdmin
    \/ onBack

SpecChat ==
    /\ InitChat
    /\ [][NextChat]_vars
    /\ WF_vars(\E ok \in BOOLEAN : ChatResponded(ok))
    /\ WF_vars(OrphanResponded)

(***************************************************************************)
(* C1.  For every catalog and every filter setting the dashboard's         *)
(* filtered list is exactly the resources that are online AND pass the     *)
(* search rule (empty term matches everything; otherwise the term is a     *)
(* case-insensitive literal substring of the title, the description or a   *)
(* tag) AND the type rule AND the subject rule AND the level rule, in      *)
(* catalog order; with the default settings it is the online subset, and   *)
(* an empty catalog gives an empty result.                                 *)
(***************************************************************************)
\* term occurs in text at some position, letter case ignored, every
\* character (metacharacters included) standing for itself
LiteralSubstringIgnoringCase(text, term) ==
    \E start \in 1..(Len(text) - Len(term) + 1) :
        \A k \in 1..Len(term) : LowerChar(text[start + k - 1]) = LowerChar(term[k])

SearchRule(res, term) ==
    \/ term = << >>
    \/ LiteralSubstringIgnoringCase(res.title, term)
    \/ LiteralSubstringIgnoringCase(res.description, term)
    \/ \E t \in {res.tags[i] : i \in 1..Len(res.tags)} :
          LiteralSubstringIgnoringCase(t, term)

FilterRule(res) ==
    /\ res.status = "online"
    /\ SearchRule(res, searchTerm)
    /\ (activeFilter = "All" \/ res.type = activeFilter)
    /\ (selectedSubjects = << >> \/ res.subject \in {selectedSubjects[i] : i \in 1..Len(selectedSubjects)})
    /\ (selectedLevel = "All" \/ res.level = selectedLevel)

\* out lists exactly the elements of seq at the positions in idx, in order
IsOrderedSelection(out, seq, idx) ==
    /\ Len(out) = Cardinality(idx)
    /\ \E f \in [1..Len(out) -> idx] :
          /\ \A j, k \in 1..Len(out) : j < k => f[j] < f[k]
          /\ \A k \in 1..Len(out) : out[k] = seq[f[k]]

C1_FilterContract ==
    /\ IsOrderedSelection(filteredResources, resources,
                          {i \in 1..Len(resources) : FilterRule(resources[i])})
    /\ isDefaultView =>
          IsOrderedSelection(filteredResources, resources,
                             {i \in 1..Len(resources) : resources[i].status = "online"})
    /\ resources = << >> => filteredResources = << >>

\* a term with a metacharacter and the other letter case selects "A+" and
\* rejects "aa", which the pattern a+ would match
C1_Witness ==
    /\ searchTerm = <<"a", "+">>
    /\ Len(filteredResources) = 1
    /\ filteredResources[1].title = <<"A", "+">>
    /\ \E i \in 1..Len(resources) :
          resources[i].title = <<"a", "a">> /\ resources[i].status = "online"

(***************************************************************************)
(* C2.  No resource with status offline is shown to, or can be opened by,  *)
(* a user of the dashboard through any path (filtered grid, Popular list,  *)
(* Recently Viewed list, related-content navigation in the viewer);        *)
(* offline resources stay listed and editable in the admin console.        *)
(***************************************************************************)
AllOnline(seq) == \A i \in 1..Len(seq) : seq[i].status = "online"

\* the resources table of the admin console lists the whole catalog
adminResourceList == resources

C2_OfflineNeverShown ==
    /\ view = "dashboard" =>
          /\ AllOnline(filteredResources)
          /\ isDefaultView => AllOnline(popularResources)
          /\ AllOnline(recentResources)
          /\ AllOnline(relatedResources)
          /\ AllOnline(selectedResource)
    /\ \A i \in 1..Len(resources) :
          resources[i].status = "offline" => Contains(adminResourceList, resources[i])

(***************************************************************************)
(* C9.  In every form state the submit control is enabled exactly when:    *)
(* type is LINK and the URL is non-empty; or type is VIDEO, DOC or         *)
(* PRESENTATION and (a file is attached or a URL is provided or an         *)
(* existing resource is being edited); or type is PDF, IMAGE, SPREADSHEET  *)
(* or CODE and (a file is attached or an existing resource is being        *)
(* edited).                                                                *)
(* As amended: "non-empty" and "provided" mean non-empty once surrounding  *)
(* whitespace is trimmed.                                                  *)
(***************************************************************************)
submitEnabled == ~submitDisabled

fileAttached == selectedFile # None

editingExisting == editingResourceId # None

EnabledRule(urlGiven) ==
    \/ formData.type = "LINK" /\ urlGiven
    \/ formData.type \in {"VIDEO", "DOC", "PRESENTATION"}
          /\ (fileAttached \/ urlGiven \/ editingExisting)
    \/ formData.type \in {"PDF", "IMAGE", "SPREADSHEET", "CODE"}
          /\ (fileAttached \/ editingExisting)

\* the claim as written: any non-empty URL counts
C9_AsWritten == submitEnabled <=> EnabledRule(formData.url # << >>)

\* the claim as amended: the URL counts when it is non-blank
C9_SubmitEnabledRule ==
    submitEnabled <=> EnabledRule(\E i \in 1..Len(formData.url) : formData.url[i] # " ")

\* LINK with a filled URL in create mode, reached from the disabled blank LINK form
C9_Witness ==
    /\ formData.type = "LINK"
    /\ formData.url = <<"u">>
    /\ editingResourceId = None
    /\ submitEnabled

(***************************************************************************)
(* C10.  The form allows a file to be attached for each of the types PDF,  *)
(* IMAGE, SPREADSHEET, CODE, VIDEO, DOC and PRESENTATION, and not for      *)
(* LINK; hence from a blank form in create mode there is, for every        *)
(* resource type, a sequence of form actions after which submit is         *)
(* enabled.                                                                *)
(***************************************************************************)
C10_FileAttachable == fileInputRendered <=> formData.type # "LINK"

\* what the code does instead: in create mode the upload-only types other
\* than PDF never get an enabled submit
C10_UploadOnlyStuck ==
    formData.type \in {"IMAGE", "SPREADSHEET", "CODE"} /\ editingResourceId = None
        => submitDisabled

(***************************************************************************)
(* C3.  After Rename(old, new) with new non-empty and different from old,  *)
(* every resource that contained old contains new exactly once and no      *)
(* longer contains old, its other tags keep their relative order, every    *)
(* resource that did not contain old is unchanged, and the reported count  *)
(* equals the number of resources that contained old.  (new is the name    *)
(* the registry stores: the typed name without surrounding whitespace.)    *)
(***************************************************************************)
Occurrences(seq, x) == Cardinality({ i \in 1..Len(seq) : seq[i] = x })

Without(seq, S) == SelectSeq(seq, LAMBDA x : x \notin S)

Holders(tag) == { i \in 1..Len(resources) : Contains(resources[i].tags, tag) }

RenamePost(old, new) ==
    /\ Len(resources') = Len(resources)
    /\ \A i \in 1..Len(resources) :
          IF i \in Holders(old)
          THEN /\ Occurrences(resources'[i].tags, new) = 1
               /\ ~Contains(resources'[i].tags, old)
               /\ Without(resources'[i].tags, {old, new})
                     = Dedup(Without(resources[i].tags, {old, new}))
          ELSE resources'[i] = resources[i]
    /\ notification' # None
    /\ TheValue(notification').count = Cardinality(Holders(old))

C3_RenameContract ==
    [][ \A old \in Range(uniqueTags) : \A new \in {trim(v) : v \in RenameInputs} :
          ( /\ ConfirmRenameTag
            /\ TheValue(editingTag).original = old
            /\ trim(TheValue(editingTag).current) = new
            /\ new # << >>
            /\ new # old )
          => RenamePost(old, new) ]_vars

(***************************************************************************)
(* C4.  Rename(old, new) leaves the whole catalog unchanged whenever new   *)
(* is empty, consists only of whitespace, or equals old (including when    *)
(* it equals old once surrounding whitespace is trimmed).                  *)
(***************************************************************************)
IsBlank(s) == \A i \in 1..Len(s) : s[i] = " "

C4_RenameNoOp ==
    [][ ( /\ ConfirmRenameTag
          /\ \/ IsBlank(TheValue(editingTag).current)
             \/ TheValue(editingTag).current = TheValue(editingTag).original
             \/ trim(TheValue(editingTag).current) = TheValue(editingTag).original )
        => resources' = resources ]_vars

(***************************************************************************)
(* C5.  After Delete(tag), no resource's tag list contains tag, the        *)
(* derived tagCounts has no entry for tag and uniqueTags does not list it, *)
(* every resource that did not contain tag is unchanged, and the reported  *)
(* count equals the number of resources that contained tag.                *)
(***************************************************************************)
DeletePost(tag) ==
    /\ Len(resources') = Len(resources)
    /\ \A i \in 1..Len(resources') : ~Contains(resources'[i].tags, tag)
    /\ tag \notin DOMAIN tagCounts'
    /\ ~Contains(uniqueTags', tag)
    /\ \A i \in 1..Len(resources) : i \notin Holders(tag) => resources'[i] = resources[i]
    /\ notification' # None
    /\ TheValue(notification').count = Cardinality(Holders(tag))

C5_DeleteContract ==
    [][ \A tag \in Range(uniqueTags) : ConfirmDeleteTag(tag) => DeletePost(tag) ]_vars

(***************************************************************************)
(* C6.  For every catalog, uniqueTags is the sorted list of the distinct   *)
(* (case-sensitive) tags used by any resource, and tagCounts[t] equals the *)
(* number of resources whose tag list contains t (a resource counts once   *)
(* even if its tag list repeats t); both are derived from the current      *)
(* catalog after every catalog change.                                     *)
(***************************************************************************)
TagsInUse == UNION { Range(resources[i].tags) : i \in 1..Len(resources) }

\* s comes before t: at the first place they differ s has ended or has the
\* smaller code unit
Precedes(s, t) ==
    \E k \in 1..Len(t) :
        /\ \A j \in 1..(k - 1) : j <= Len(s) /\ s[j] = t[j]
        /\ k - 1 <= Len(s)
        /\ (k = Len(s) + 1 \/ CodeUnit(s[k]) < CodeUnit(t[k]))

C6_TagRegistry ==
    /\ Range(uniqueTags) = TagsInUse
    /\ \A i \in 1..(Len(uniqueTags) - 1) : Precedes(uniqueTags[i], uniqueTags[i + 1])
    /\ DOMAIN tagCounts = TagsInUse
    /\ \A t \in TagsInUse : tagCounts[t] = Cardinality(Holders(t))

(***************************************************************************)
(* C7.  Tag rename and tag delete are backend writes: each affected        *)
(* resource is updated by its own network call, the caller awaits          *)
(* completion and then reconciles local state, so the change is still      *)
(* present in the catalog after the next full re-fetch from the backend.   *)
(***************************************************************************)
\* when the handler has finished, the backend holds every resource it changed
C7_TagOpsReachBackend ==
    [][ (ConfirmRenameTag \/ \E tag \in Range(uniqueTags) : ConfirmDeleteTag(tag))
        => \A i \in 1..Len(resources') :
              resources'[i] # resources[i] => Contains(backend', resources'[i]) ]_vars

(***************************************************************************)
(* C8.  A tag rename or a tag delete mutates the catalog only after a      *)
(* request step followed by a confirm step for that same tag; cancelling   *)
(* after the request clears the pending request and leaves the catalog     *)
(* unchanged.                                                              *)
(***************************************************************************)
C8_TwoPhase ==
    [][ /\ \A tag \in Range(uniqueTags) :
              handleDeleteTag(tag) /\ resources' # resources
                  => tagDeleteConfirm = Some(tag)
        /\ handleRenameTag /\ resources' # resources
              => editingTag # None /\ Holders(TheValue(editingTag).original) # {}
        /\ tagDeleteConfirm' # None /\ tagDeleteConfirm' # tagDeleteConfirm
              => RequestDeleteTag(TheValue(tagDeleteConfirm'))
        /\ editingTag = None /\ editingTag' # None
              => RequestRenameTag(TheValue(editingTag').original)
        /\ CancelRenameTag => resources' = resources /\ editingTag' = None
        /\ \A tag \in Range(uniqueTags) :
              CancelDeleteTag(tag) => resources' = resources /\ tagDeleteConfirm' = None
      ]_vars

\* a confirmed delete has removed a tag from at least one resource
C8_Witness ==
    /\ notification # None
    /\ TheValue(notification).text = "Deleted tag"
    /\ TheValue(notification).count > 0
    /\ tagDeleteConfirm = None

(***************************************************************************)
(* C17.  In every reachable client state no two resources of the catalog   *)
(* have the same id, across every sequence of initial load, create,        *)
(* quick-link add, update, batch update, delete, re-fetch and import.      *)
(***************************************************************************)
C17_UniqueIds ==
    \A i, j \in 1..Len(resources) : resources[i].id = resources[j].id => i = j

(***************************************************************************)
(* C18.  Importing a file that does not parse as JSON, is not an array, or *)
(* contains an item lacking id, title or type is rejected before any       *)
(* mutation: catalog and bookmark set are unchanged and an error           *)
(* notification is shown.  A valid import replaces the catalog and removes *)
(* from the bookmark set exactly the ids that are not in the imported      *)
(* catalog.                                                                *)
(***************************************************************************)
IsValidImport(file) ==
    /\ file.kind = "array"
    /\ \A i \in 1..Len(file.json) :
          file.json[i].id # "" /\ file.json[i].title # << >> /\ file.json[i].type # ""

IdsOf(seq) == { seq[i].id : i \in 1..Len(seq) }

C11_SubmitFindsUrl ==
    [][ handleSubmit =>
          /\ submitCall' # None
          /\ notification' # ErrorNotice("Please upload a file or provide a link.") ]_vars

(***************************************************************************)
(* C12.  On submit the persisted url is: for a non-LINK type, the uploaded *)
(* file's URL if a file is attached, otherwise the trimmed typed URL if it *)
(* is non-empty, otherwise the existing resource's url when editing; for   *)
(* LINK, the trimmed typed URL with external_url set to null.  No payload  *)
(* is ever sent to the backend with a missing url.                         *)
(***************************************************************************)
\* the call whose metadata write this step sends
SendsMetadata ==
    /\ submitCall # None
    /\ TheValue(submitCall).pc = "token"
    /\ lastRequest' # lastRequest

\* the call whose metadata write this step sends and the backend stores
StoresMetadata ==
    /\ SendsMetadata
    /\ submitCall' # None
    /\ TheValue(submitCall').pc = "related"

StoredBy(call) == TheValue(FindById(backend', TheValue(call.savedId)))

EditedIn(call) ==
    TheValue(FindById(call.started.resources, TheValue(call.editingResourceId)))

ExpectedUrl(call) ==
    IF call.formData.type = "LINK" THEN trim(call.formData.url)
    ELSE IF call.selectedFile # None THEN PublicUrl(TheValue(call.selectedFile))
    ELSE IF trim(call.formData.url) # << >> THEN trim(call.formData.url)
    ELSE EditedIn(call).url

C12_PersistedUrl ==
    [][ /\ SendsMetadata => payloadOfCall(TheValue(submitCall)).url # << >>
        /\ StoresMetadata =>
              /\ StoredBy(TheValue(submitCall')).url = ExpectedUrl(TheValue(submitCall))
              /\ StoredBy(TheValue(submitCall')).url # << >>
              /\ TheValue(submitCall).formData.type = "LINK"
                    => StoredBy(TheValue(submitCall')).external_url = << >> ]_vars

\* an edit of r1 with a typed URL and no file has been stored
C12_Witness ==
    /\ submitCall # None
    /\ TheValue(submitCall).pc = "related"
    /\ TheValue(submitCall).editingResourceId = Some("r1")
    /\ TheValue(submitCall).selectedFile = None
    /\ TheValue(submitCall).formData.type = "DOC"
    /\ TheValue(FindById(backend, "r1")).url = <<"u">>

(***************************************************************************)
(* C13.  A successful submit performs, in this order and each only after   *)
(* the previous one succeeded: the metadata write (POST when creating,     *)
(* PUT when editing), the related-id association update for that           *)
(* resource's id, a full catalog re-fetch whose result replaces the local  *)
(* catalog, then the success notification and the form reset; the reset    *)
(* keeps department, subject and level and clears every other field, the   *)
(* attached file and the edit mode.                                        *)
(***************************************************************************)
SavedNotice == Notice("success", "Resource saved", << >>, << >>, 0)

BlankFormKeeping(fd) ==
    [ title |-> << >>, description |-> << >>, type |-> "PDF",
      department |-> fd.department, subject |-> fd.subject, level |-> fd.level,
      tags |-> << >>, status |-> "online", url |-> << >>, external_url |-> << >>,
      relatedIds |-> << >> ]

PcOf(call) == IF call = None THEN "idle" ELSE TheValue(call).pc

C13_SubmitOrder ==
    [][ /\ PcOf(submitCall') = "related" /\ PcOf(submitCall) # "related"
           => /\ PcOf(submitCall) = "token"
              /\ TheValue(lastRequest').method =
                    (IF TheValue(submitCall).editingResourceId = None THEN "POST" ELSE "PUT")
              /\ HoldsId(backend', TheValue(TheValue(submitCall').savedId))
        /\ PcOf(submitCall') = "refetch" /\ PcOf(submitCall) # "refetch"
           => /\ PcOf(submitCall) = "related"
              /\ lastRequest' = Request("PUT related", TheValue(TheValue(submitCall).savedId),
                                        session)
              /\ StoredBy(TheValue(submitCall)).relatedResourceIds
                    = TheValue(submitCall).formData.relatedIds
        /\ notification' = SavedNotice /\ notification # SavedNotice
           => /\ PcOf(submitCall) = "refetch"
              /\ submitCall' = None
              /\ resources' = backend
              /\ formData' = BlankFormKeeping(formData)
              /\ selectedFile' = None
              /\ editingResourceId' = None ]_vars

\* an edit of r1 has been saved: the form is blank and keeps r1's subject
C13_Witness ==
    /\ notification = SavedNotice
    /\ formData = BlankFormKeeping([InitialFormData EXCEPT !.subject = "CS"])
    /\ editingResourceId = None
    /\ resources = backend
    /\ lastRequest = Request("PUT related", "r1", session)

(***************************************************************************)
(* C14.  If any network step of a create or edit submit fails (token       *)
(* retrieval, file upload, metadata write, related-id update, or catalog   *)
(* re-fetch), the operation is aborted with no partial state applied: the  *)
(* local catalog and notification list are the same as before the submit   *)
(* started, an error notification is shown, and the form is not reset.     *)
(***************************************************************************)
SubmitFailedStep ==
    /\ submitCall # None
    /\ submitCall' = None
    /\ notification' # SavedNotice

C14_FailureAppliesNothing ==
    [][ SubmitFailedStep =>
          /\ resources' = TheValue(submitCall).started.resources
          /\ notifications' = TheValue(submitCall).started.notifications
          /\ notification' # None
          /\ TheValue(notification').type = "error"
          /\ formData' = formData
          /\ selectedFile' = selectedFile
          /\ editingResourceId' = editingResourceId ]_vars

(***************************************************************************)
(* C15.  When an edit is submitted with no file attached, the payload's    *)
(* original_filename equals the existing resource's original_filename;     *)
(* when a file is attached it is that file's name; on create without a     *)
(* file it is null.                                                        *)
(***************************************************************************)
ExpectedFilename(call) ==
    IF call.selectedFile # None THEN Some(TheValue(call.selectedFile).name)
    ELSE IF call.editingResourceId # None THEN EditedIn(call).original_filename
    ELSE None

C16_DeleteContract ==
    [][ \A call \in deleteCalls : \A ok \in BOOLEAN :
          DeleteResponded(call, ok) =>
             IF backend' # backend
             THEN /\ ~HoldsId(backend', call.id)
                  /\ ~HoldsId(resources', call.id)
                  /\ call.id \notin selectedResourceIds'
             ELSE /\ resources' = resources
                  /\ selectedResourceIds' = selectedResourceIds
                  /\ call.mounted =>
                        notification' = ErrorNotice("Failed to delete resource.") ]_vars

(***************************************************************************)
(* C20.  Every admin mutation sent to the backend (create, update, delete, *)
(* related-id update, quick-link create) carries the session's bearer      *)
(* token; when no session token is available, no write is issued to the    *)
(* backend or to the object store and a failure is surfaced to the user.   *)
(***************************************************************************)
C20_WritesCarryToken ==
    [][ /\ lastRequest' # lastRequest =>
              session # None /\ TheValue(lastRequest').auth = session
        /\ session = None =>
              lastRequest' = lastRequest /\ storage' = storage /\ backend' = backend ]_vars

(***************************************************************************)
(* C19.  In the client catalog each resource's views and downloads         *)
(* counters never decrease over any sequence of operations (open,          *)
(* download, edit submit, tag operations, catalog re-fetch, import) and    *)
(* are 0 when the resource is created; each open or download raises the    *)
(* corresponding counter by exactly 1 whether or not the backend increment *)
(* call succeeds.                                                          *)
(***************************************************************************)
CountersOf(seq, id) ==
    LET r == TheValue(FindById(seq, id))
    IN [views |-> r.views, downloads |-> r.downloads]

C19_CountersMonotone ==
    [][ /\ \A id \in IdsOf(resources) \cap IdsOf(resources') :
              /\ CountersOf(resources', id).views >= CountersOf(resources, id).views
              /\ CountersOf(resources', id).downloads >= CountersOf(resources, id).downloads
        /\ \A id \in IdsOf(resources') \ IdsOf(resources) :
              CountersOf(resources', id) = [views |-> 0, downloads |-> 0]
        /\ ClickGridCard /\ selectedResource' # None =>
              CountersOf(resources', TheValue(selectedResource').id).views
                 = CountersOf(resources, TheValue(selectedResource').id).views + 1
        /\ handleDownload =>
              CountersOf(resources', TheValue(selectedResource).id).downloads
                 = CountersOf(resources, TheValue(selectedResource).id).downloads + 1 ]_vars

(***************************************************************************)
(* C24.  The Popular Resources ranking is the online resources with        *)
(* views > 0, sorted by views descending with ties kept in catalog order,  *)
(* cut to the first 4; it is displayed exactly when the filter state is    *)
(* the default view (empty search, type 'All', empty subject set, level    *)
(* 'All') and the ranking is non-empty.                                    *)
(***************************************************************************)
Ranked == { i \in 1..Len(resources) : resources[i].status = "online" /\ resources[i].views > 0 }

RankedBefore(j, i) ==
    \/ resources[j].views > resources[i].views
    \/ resources[j].views = resources[i].views /\ j < i

PlaceOf(i) == Cardinality({ j \in Ranked : RankedBefore(j, i) }) + 1

PreviewKinds == {"none", "iframe", "image", "video", "pdf", "link"}

viewed == TheValue(selectedResource)

resolved == getBestPreviewUrl(viewed)

C23_ResolverTotal ==
    selectedResource # None =>
        /\ resolved.kind \in PreviewKinds
        /\ candidateOf(viewed) = IF viewed.url # << >> THEN viewed.url ELSE viewed.external_url
        /\ resolved.kind = "none" <=> viewed.url = << >> /\ viewed.external_url = << >>

(***************************************************************************)
(* C22.  For every candidate that matches a YouTube pattern                *)
(* (youtube.com/watch?v=<id>, youtu.be/<id>, youtube.com/embed/<id>, with  *)
(* or without scheme and www), the resolver returns kind iframe with the   *)
(* URL exactly https://www.youtube.com/embed/<id>.                         *)
(***************************************************************************)
OptionalScheme == { << >>, HttpPrefix, HttpsPrefix }

OptionalWww == { << >>, WwwPrefix }

WithSchemeAndWww(forms) ==
    { s \o w \o f : s \in OptionalScheme, w \in OptionalWww, f \in forms }

YouTubeForms(id) ==
    WithSchemeAndWww({ <<"y", "o", "u", "t", "u", "b", "e", ".", "c", "o", "m", "/", "w", "a", "t", "c", "h", "?", "v", "=">> \o id,
                       <<"y", "o", "u", "t", "u", ".", "b", "e", "/">> \o id,
                       <<"y", "o", "u", "t", "u", "b", "e", ".", "c", "o", "m", "/", "e", "m", "b", "e", "d", "/">> \o id })

C22_YouTubeEmbed ==
    selectedResource # None /\ candidateOf(viewed) \in YouTubeForms(VideoId) =>
        resolved = Preview("iframe", <<"h", "t", "t", "p", "s", ":", "/", "/", "w", "w", "w", ".", "y", "o", "u", "t", "u", "b", "e", ".", "c", "o", "m", "/", "e", "m", "b", "e", "d", "/">> \o VideoId)

(***************************************************************************)
(* C21.  The preview resolver applies its rules first-match-wins in the    *)
(* order YouTube, Vimeo, Google Drive file, Google Docs/Slides/Sheets,     *)
(* office extension (doc, docx, ppt, pptx, xls, xlsx: iframe with the      *)
(* office-viewer URL), pdf: pdf, image extension (png, jpg, jpeg, gif,     *)
(* webp, svg): image, video extension (mp4, webm, ogg, mov, m4v): video,   *)
(* otherwise link with the candidate itself; extensions are matched        *)
(* case-insensitively on the candidate with its query string stripped,     *)
(* and a candidate that matches an earlier rule's pattern is never         *)
(* classified by a later rule.                                             *)
(***************************************************************************)
\* c is, ignoring case, an optional scheme, an optional www. and one of the
\* prefixes, followed by a non-empty id
MatchesForm(c, prefixes) ==
    \E start \in WithSchemeAndWww(prefixes) :
        /\ startsWith(toLowerCase(c), start)
        /\ Len(c) > Len(start)
        /\ c[Len(start) + 1] \notin {"/", "?", "#", "&"}

EmbedPrefixes ==
    { <<"y", "o", "u", "t", "u", "b", "e", ".", "c", "o", "m", "/", "w", "a", "t", "c", "h", "?", "v", "=">>,
      <<"y", "o", "u", "t", "u", ".", "b", "e", "/">>,
      <<"y", "o", "u", "t", "u", "b", "e", ".", "c", "o", "m", "/", "e", "m", "b", "e", "d", "/">>,
      <<"v", "i", "m", "e", "o", ".", "c", "o", "m", "/">>,
      <<"d", "r", "i", "v", "e", ".", "g", "o", "o", "g", "l", "e", ".", "c", "o", "m", "/", "f", "i", "l", "e", "/", "d", "/">>,
      <<"d", "o", "c", "s", ".", "g", "o", "o", "g", "l", "e", ".", "c", "o", "m", "/", "d", "o", "c", "u", "m", "e", "n", "t", "/", "d", "/">>,
      <<"d", "o", "c", "s", ".", "g", "o", "o", "g", "l", "e", ".", "c", "o", "m", "/", "p", "r", "e", "s", "e", "n", "t", "a", "t", "i", "o", "n", "/", "d", "/">>,
      <<"d", "o", "c", "s", ".", "g", "o", "o", "g", "l", "e", ".", "c", "o", "m", "/", "s", "p", "r", "e", "a", "d", "s", "h", "e", "e", "t", "s", "/", "d", "/">> }

\* c is on one of the embeddable hosts without being of one of the forms
\* above: the rules name no result for it
EmbedHosts ==
    { <<"y", "o", "u", "t", "u", "b", "e", ".", "c", "o", "m", "/">>,
      <<"y", "o", "u", "t", "u", ".", "b", "e", "/">>,
      <<"v", "i", "m", "e", "o", ".", "c", "o", "m", "/">>,
      <<"d", "r", "i", "v", "e", ".", "g", "o", "o", "g", "l", "e", ".", "c", "o", "m", "/">>,
      <<"d", "o", "c", "s", ".", "g", "o", "o", "g", "l", "e", ".", "c", "o", "m", "/">> }

OnEmbedHost(c) ==
    \E start \in WithSchemeAndWww(EmbedHosts) : startsWith(toLowerCase(c), start)

\* the extension named by the candidate: what follows the last "." before "?"
RECURSIVE AfterLastDot(_)
AfterLastDot(s) ==
    IF s = << >> THEN << >>
    ELSE IF s[Len(s)] = "." THEN << >>
    ELSE AfterLastDot(SubSeq(s, 1, Len(s) - 1)) \o <<s[Len(s)]>>

NamedExtension(c) ==
    LET path == SplitOn(c, "?")[1]
    IN IF Contains(path, ".") THEN toLowerCase(AfterLastDot(path)) ELSE << >>

C21_FirstMatchWins ==
    selectedResource # None /\ candidateOf(viewed) # << >> =>
        LET c   == candidateOf(viewed)
            ext == NamedExtension(c)
        IN IF MatchesForm(c, EmbedPrefixes)
           THEN resolved.kind = "iframe" /\ ~startsWith(resolved.url, OfficeViewerPrefix)
           ELSE IF OnEmbedHost(c) THEN TRUE
           ELSE IF ext # << >> /\ Contains(OfficeExtensions, ext)
           THEN resolved.kind = "iframe" /\ startsWith(resolved.url, OfficeViewerPrefix)
           ELSE IF ext = <<"p", "d", "f">> THEN resolved = Preview("pdf", c)
           ELSE IF ext # << >> /\ Contains(ImageExtensions, ext) THEN resolved = Preview("image", c)
           ELSE IF ext # << >> /\ Contains(VideoExtensions, ext) THEN resolved = Preview("video", c)
           ELSE resolved = Preview("link", c)

(***************************************************************************)
(* C25.  Related links are navigable in both directions: whenever resource *)
(* A lists resource B in its relatedResourceIds, the viewer opened on A    *)
(* offers B and the viewer opened on B offers A, even though the relation  *)
(* is stored only on A.                                                    *)
(***************************************************************************)
Lists(a, b) == Contains(a.relatedResourceIds, b.id)

C25_RelatedBothWays ==
    selectedResource # None =>
        \A i \in 1..Len(resources) :
            \/ Lists(TheValue(selectedResource), resources[i])
            \/ Lists(resources[i], TheValue(selectedResource))
            => \E k \in 1..Len(relatedResources) : relatedResources[k].id = resources[i].id

(***************************************************************************)
(* C26.  Under any interleaving of admin delete requests that are in       *)
(* flight at the same time (a second delete confirmed before the first     *)
(* one's response arrives), once all of them have completed successfully   *)
(* no deleted resource id remains in the bookmark/selection set or in the  *)
(* catalog.                                                                *)
(***************************************************************************)
C26_ConcurrentDeletes ==
    deleteCalls = {} =>
        /\ \A id \in selectedResourceIds : HoldsId(backend, id)
        /\ \A id \in IdsOfCatalog : HoldsId(backend, id)

(***************************************************************************)
(* C27.  Entering edit mode starts with no attached file: a file selected  *)
(* earlier (for example in create mode) is never uploaded by a later edit  *)
(* submit of another resource, so an edit during which the user attached   *)
(* nothing leaves that resource's url and original_filename unchanged.     *)
(***************************************************************************)
EntersEditMode == \E i \in 1..Len(resources) : handleEditClick(resources[i])

C27_EditStartsWithoutFile ==
    [][ EntersEditMode => selectedFile' = None ]_vars

(***************************************************************************)
(* C28.  Whenever the admin form is in edit mode, editingResourceId refers *)
(* to a resource that is present in the catalog; it does not dangle after  *)
(* that resource is deleted or after the catalog is replaced by an import  *)
(* or a re-fetch, so an edit submit never issues a PUT for an id that is   *)
(* no longer in the catalog.                                               *)
(***************************************************************************)
C28_EditTargetInCatalog ==
    editingResourceId # None => HoldsId(resources, TheValue(editingResourceId))

(***************************************************************************)
(* C29.  The response of a catalog fetch never overwrites local changes    *)
(* made after that fetch was issued: a resource successfully created (for  *)
(* example by Quick Add Link) while the initial catalog load is still in   *)
(* flight is still in the local catalog after the load completes.          *)
(***************************************************************************)
C29_LoadKeepsLocalChanges ==
    [][ LoadResponded =>
          \A i \in 1..Len(resources) :
              HoldsId(backend, resources[i].id) => HoldsId(resources', resources[i].id) ]_vars

(***************************************************************************)
(* C30.  In the chat widget at most one request is in flight at a time,    *)
(* and after every send the loading flag eventually returns to false so    *)
(* that a further message can be sent, whether the chat request succeeds   *)
(* or fails.                                                               *)
(***************************************************************************)
C30_ChatLoading ==
    /\ [](chat.requests <= 1)
    /\ chat.isLoading ~> ~chat.isLoading
====
